---- MODULE Spec2Model ----
(***************************************************************************)
(* Office-Item-classifier: the detection pipeline of the desktop GUI.      *)
(*                                                                         *)
(*   ModelLoader   (The_final_official_GUI/model_loader.py)                *)
(*   CameraThread  (The_final_official_GUI/camera_handler.py)              *)
(*   MainWindow    (ui/main_window.py)                                     *)
(*   FileProcessor (file_processor.py)                                     *)
(*                                                                         *)
(* and two of the data set tools: the directory watcher                    *)
(* (random_rename_watcher.py) and the renumbering script (rename.py).      *)
(*                                                                         *)
(* Confidences are percentages (0.81 is 81).  An image is a record         *)
(* [src, copy, drawn]: src is the input buffer, copy tells whether it is   *)
(* the caller's own object (0) or a copy made by the code, drawn is the    *)
(* sequence of boxes painted on it.                                        *)
(***************************************************************************)
EXTENDS Integers, Sequences, FiniteSets, TLC

VARIABLES
    \* ---- ModelLoader fields
    YOLO,               \* TRUE iff "from ultralytics import YOLO" succeeded
    use_mock,
    model,              \* "None" or "loaded"
    class_names,        \* function class_id -> name
    detection_queue,    \* Queue(maxsize=1): frames submitted
    result_queue,       \* Queue(maxsize=1): results published
    is_processing,
    last_result,        \* NoResult or a result
    \* ---- the thread running _process_queue
    w_pc,               \* "none", "loop", "get", "infer", "check", "put", "done"
    w_frame,            \* frame held by the worker (0: none)
    w_result,           \* (display_frame, detection) the worker is about to publish
    completed,          \* number of inferences the worker has completed
    \* ---- the thread calling predict_async
    pa_pc,              \* "idle", "submit", "get", "last"
    pa_frame,           \* argument of the call in progress (0: no call)
    pa_dropped,         \* the call in progress saw the submission slot occupied
    pa_latest,          \* value of "completed" when the call in progress began
    \* ---- the input of the synchronous predict calls of this run
    arg,                \* [image, out]: the image and what the model answers for it
    \* ---- CameraThread fields
    camera,             \* NoCamera, or the port of the open cv2.VideoCapture
    is_running,
    consecutive_failures,
    t_pc,               \* the QThread: "none" (not running), "loop", "check",
                        \* "read", "exit" (run() is over, the thread not yet finished)
    \* ---- MainWindow fields
    is_camera_on,
    processing_files,
    last_camera_frame,  \* 0: None
    frame_counter,      \* counted modulo 3
    start_btn, stop_btn, snapshot_btn, upload_btn, folder_btn,   \* isEnabled()
    \* ---- the UI thread and what is queued for it
    ui_pc,              \* "idle", "wait", "start_open", "dialog_image", "dialog_folder",
                        \* "close_stop", "closed"
    ui_cont,            \* the handler that is inside CameraThread.stop_camera
    snapshot_frame,     \* the frame take_snapshot copied (0: none)
    timer,              \* the pending QTimer.singleShot: "none", "snapshot", "image", "folder"
    frame_events,       \* frame_ready signals queued for the UI thread
    fp_pc,              \* the FileProcessor thread: "none" (not running), "run",
                        \* "loop", "exit" (run() is over, the thread not yet finished)
    fp_finished,        \* a finished_processing signal is queued for the UI thread
    files_to_process,   \* FileProcessor.files_to_process: the kind of each file
    fp_i,               \* entries of the list run() has iterated over
    fp_total,           \* total_files of run()
    fp_log,             \* signals run() has emitted that processing_finished has
                        \* not yet followed
    was_stopped,        \* MainWindow.stop_camera has run at least once
    \* ---- the last call that returned: its arguments and its result
    ret,
    \* ---- random_rename_watcher.py: the watched directory
    file,               \* the file added to it: [name, size, image, writing]
    \* ---- watch_directory
    args,               \* parse_args(): [poll_interval, stability_timeout, stable_checks]
    seen,
    wd_pc,              \* "none" (not running), "scan", "wait", "sleep"
    \* ---- wait_for_stable_file: its parameters and its locals
    timeout, interval, stable_checks,
    wf_pc,              \* "idle" (no call), "start", "head", "sleep", "done"
    clock,              \* time.time() - start
    last_size,
    consecutive,
    stable,             \* what the call returned: "none", "True", "False"
    checks,             \* the size checks of the call: [at, size, same]
    \* ---- watch_directory and the names in the directory
    dir,                \* os.scandir(directory): the file under each name
    dry_run,            \* --dry-run
    todo,               \* entries of the current pass not yet looked at
    attempts            \* the calls of rename_file_safely so far:
                        \* [id, from, to, outcome]

loaderVars == <<YOLO, use_mock, model, class_names>>
queueVars  == <<detection_queue, result_queue, is_processing, last_result>>
workerVars == <<w_pc, w_frame, w_result, completed>>
callerVars == <<pa_pc, pa_frame, pa_dropped, pa_latest>>

camVars    == <<camera, is_running, consecutive_failures, t_pc>>
winVars    == <<is_camera_on, processing_files, last_camera_frame, frame_counter>>
btnVars    == <<start_btn, stop_btn, snapshot_btn, upload_btn, folder_btn>>
fpVars     == <<files_to_process, fp_i, fp_total, fp_log>>
uiVars     == <<ui_pc, ui_cont, snapshot_frame, timer, frame_events, fp_pc, fp_finished,
                was_stopped, fpVars>>
ctlVars    == <<camVars, winVars, btnVars, uiVars>>

dirVars    == <<dir, dry_run, todo, attempts>>

watchVars  == <<file, args, seen, wd_pc, timeout, interval, stable_checks,
                wf_pc, clock, last_size, consecutive, stable, checks, dirVars>>

\* what no step of the GUI application changes: the input of its synchronous
\* predict calls and the watcher script
restVars   == <<arg, watchVars>>

\* the GUI application
appVars    == <<loaderVars, queueVars, workerVars, callerVars, arg, ctlVars, ret>>

vars == <<appVars, watchVars>>

(***************************************************************************)
(* Bounds                                                                  *)
(***************************************************************************)
MaxBoxes  == 3          \* candidates the model returns for one image
MaxImage  == 2          \* distinct input images / frames
MaxInfer  == 2          \* inferences the worker completes in one run

Images    == 1..MaxImage
Confs     == {25, 40, 81}       \* every candidate clears conf=0.25
ClassIds  == {5, 7}

(***************************************************************************)
(* Data                                                                    *)
(***************************************************************************)
None == [class_name |-> "None", confidence |-> 0, class_id |-> -1]

NoCall == [op |-> "none"]

\* load_model's default table (model_loader.py:42-46)
DefaultNames ==
    (0 :> "Bin") @@ (1 :> "Bottle") @@ (2 :> "Keyboard") @@ (3 :> "Laptop") @@
    (4 :> "Mouse") @@ (5 :> "Mug") @@ (6 :> "Notebook") @@ (7 :> "Pen") @@
    (8 :> "Phone") @@ (9 :> "Stapler")

\* names of a model trained on fewer classes
PartialNames == (5 :> "Mug")

ObjectNames == (0 :> "Object")

NoNames == [i \in {} |-> ""]

Digit(i) == CASE i = 0 -> "0" [] i = 1 -> "1" [] i = 2 -> "2" [] i = 3 -> "3"
              [] i = 4 -> "4" [] i = 5 -> "5" [] i = 6 -> "6" [] i = 7 -> "7"
              [] i = 8 -> "8" [] i = 9 -> "9"

\* self.class_names.get(class_id, f"Class_{class_id}")
ClassName(cn, id) == IF id \in DOMAIN cn THEN cn[id] ELSE "Class_" \o Digit(id)

Box == [conf : Confs, cls : ClassIds]

RECURSIVE SeqsUpTo(_, _)
SeqsUpTo(S, n) ==
    IF n = 0 THEN {<<>>}
    ELSE LET shorter == SeqsUpTo(S, n - 1)
         IN  shorter \cup {Append(s, x) : s \in {t \in shorter : Len(t) = n - 1}, x \in S}

\* what self.model.predict(...) can hand back to predict_single
ModelOutputs ==
    {[kind |-> "raise"], [kind |-> "empty"], [kind |-> "noboxes"]}
    \cup {[kind |-> "boxes", boxes |-> b] : b \in SeqsUpTo(Box, MaxBoxes)}

Original(image) == [src |-> image, copy |-> 0, drawn |-> <<>>]

(***************************************************************************)
(* ModelLoader.__init__ and load_model                                     *)
(***************************************************************************)
LoadOutcomes == {"names", "partial_names", "no_names", "ctor_raises", "warmup_raises"}

\* a load_model that lets the failure escape and keeps the loader as it was
LoadModel_propagates(um, m, cn, outcome) ==
    IF um
    THEN [use_mock |-> TRUE, model |-> m, class_names |-> ObjectNames,
          value |-> TRUE, raised |-> FALSE]
    ELSE CASE outcome = "ctor_raises" ->
                [use_mock |-> um, model |-> m, class_names |-> cn,
                 value |-> FALSE, raised |-> TRUE]
           [] outcome = "warmup_raises" ->
                [use_mock |-> um, model |-> "loaded", class_names |-> cn,
                 value |-> FALSE, raised |-> TRUE]
           [] outcome = "names" ->
                [use_mock |-> FALSE, model |-> "loaded", class_names |-> DefaultNames,
                 value |-> TRUE, raised |-> FALSE]
           [] outcome = "partial_names" ->
                [use_mock |-> FALSE, model |-> "loaded", class_names |-> PartialNames,
                 value |-> TRUE, raised |-> FALSE]
           [] outcome = "no_names" ->
                [use_mock |-> FALSE, model |-> "loaded", class_names |-> DefaultNames,
                 value |-> TRUE, raised |-> FALSE]

\* load_model(model_path): the new fields and what the call hands back
LoadModel(um, m, cn, outcome) ==
    IF um
    THEN [use_mock |-> TRUE, model |-> m, class_names |-> ObjectNames,
          value |-> TRUE, raised |-> FALSE]
    ELSE CASE outcome = "ctor_raises" ->
                \* self.YOLO(model_path) raised: self.model keeps its value
                [use_mock |-> TRUE, model |-> m, class_names |-> ObjectNames,
                 value |-> TRUE, raised |-> FALSE]
           [] outcome = "warmup_raises" ->
                \* self.model was assigned before the warm-up call raised
                [use_mock |-> TRUE, model |-> "loaded", class_names |-> ObjectNames,
                 value |-> TRUE, raised |-> FALSE]
           [] outcome = "names" ->
                [use_mock |-> FALSE, model |-> "loaded", class_names |-> DefaultNames,
                 value |-> TRUE, raised |-> FALSE]
           [] outcome = "partial_names" ->
                [use_mock |-> FALSE, model |-> "loaded", class_names |-> PartialNames,
                 value |-> TRUE, raised |-> FALSE]
           [] outcome = "no_names" ->
                [use_mock |-> FALSE, model |-> "loaded", class_names |-> DefaultNames,
                 value |-> TRUE, raised |-> FALSE]

(***************************************************************************)
(* ModelLoader.predict_single                                              *)
(***************************************************************************)
Detection(cn, box) ==
    [class_name |-> ClassName(cn, box.cls), confidence |-> box.conf, class_id |-> box.cls]

\* the first loop with ">=" in place of ">": the last of several maxima wins
RECURSIVE BestScan_lastWins(_, _, _, _)
BestScan_lastWins(cn, boxes, i, acc) ==
    IF i > Len(boxes) THEN acc
    ELSE IF boxes[i].conf >= acc.highest_confidence
         THEN BestScan_lastWins(cn, boxes, i + 1,
                       [highest_confidence |-> boxes[i].conf,
                        best_detection |-> Detection(cn, boxes[i])])
         ELSE BestScan_lastWins(cn, boxes, i + 1, acc)

\* the first loop (model_loader.py:80-90), from box i on
RECURSIVE BestScan(_, _, _, _)
BestScan(cn, boxes, i, acc) ==
    IF i > Len(boxes) THEN acc
    ELSE IF boxes[i].conf > acc.highest_confidence
         THEN BestScan(cn, boxes, i + 1,
                       [highest_confidence |-> boxes[i].conf,
                        best_detection |-> Detection(cn, boxes[i])])
         ELSE BestScan(cn, boxes, i + 1, acc)

\* the second loop (model_loader.py:98-117): the first box whose confidence
\* equals highest_confidence is drawn, then break
DrawnBox(boxes, highest) ==
    LET hits == {i \in 1..Len(boxes) : boxes[i].conf = highest}
    IN  IF hits = {} THEN <<>>
        ELSE <<CHOOSE i \in hits : \A j \in hits : i <= j>>

\* predict_single(image) -> (image, detection)
\* predict_single without its except clause: the error reaches the caller
PredictSingle_propagates(um, m, cn, image, out) ==
    IF ~um /\ m # "None" /\ out.kind = "raise"
    THEN [img |-> [raised |-> TRUE], det |-> "raised"]
    ELSE [img |-> Original(image), det |-> None]

PredictSingle(um, m, cn, image, out) ==
    IF um \/ m = "None"
    THEN [img |-> Original(image), det |-> None]
    ELSE IF out.kind = "raise"
    THEN [img |-> Original(image), det |-> None]
    ELSE IF out.kind \in {"empty", "noboxes"}
    THEN [img |-> Original(image), det |-> None]
    ELSE LET scan == BestScan(cn, out.boxes, 1,
                              [highest_confidence |-> 0, best_detection |-> None])
         IN  IF scan.best_detection # None
             THEN [img |-> [src |-> image, copy |-> 1,
                            drawn |-> DrawnBox(out.boxes, scan.highest_confidence)],
                   det |-> scan.best_detection]
             ELSE [img |-> Original(image), det |-> scan.best_detection]

(***************************************************************************)
(* Initial state: a freshly constructed ModelLoader                        *)
(***************************************************************************)
NoResult == [none |-> TRUE]

\* self.camera = None
NoCamera == -1

InitQueues ==
    /\ detection_queue = <<>>
    /\ result_queue = <<>>
    /\ last_result = NoResult
    /\ w_frame = 0
    /\ w_result = NoResult
    /\ completed = 0
    /\ pa_pc = "idle"
    /\ pa_frame = 0
    /\ pa_dropped = FALSE
    /\ pa_latest = 0

\* CameraThread.__init__, MainWindow.__init__ and init_ui
InitControlFields ==
    /\ camera = NoCamera
    /\ is_running = FALSE
    /\ consecutive_failures = 0
    /\ t_pc = "none"
    /\ is_camera_on = FALSE
    /\ processing_files = FALSE
    /\ last_camera_frame = 0
    /\ frame_counter = 0
    /\ start_btn = TRUE
    /\ stop_btn = FALSE
    /\ snapshot_btn = FALSE
    /\ upload_btn = TRUE
    /\ folder_btn = TRUE
    /\ ui_pc = "idle"
    /\ ui_cont = "none"
    /\ snapshot_frame = 0
    /\ timer = "none"
    /\ frame_events = <<>>
    /\ fp_pc = "none"
    /\ fp_finished = FALSE
    /\ files_to_process = <<>>
    /\ fp_i = 0
    /\ fp_total = 0
    /\ fp_log = <<>>
    /\ was_stopped = FALSE

\* ModelLoader.__init__
InitLoader ==
    /\ YOLO \in BOOLEAN
    /\ use_mock = ~YOLO
    /\ model = "None"
    /\ class_names = NoNames
    /\ is_processing = FALSE
    /\ w_pc = "none"
    /\ InitQueues
    /\ InitControlFields
    /\ ret = NoCall

\* no synchronous predict is made in this run
NoArg == [image |-> 0, out |-> [kind |-> "empty"]]

\* os.path.getsize raises OSError: there is no file at the path
Gone == -1

\* the watched directory holds no file that was added after start-up
NoFile == [name |-> "none", size |-> Gone, image |-> FALSE, writing |-> FALSE]

\* watch_directory is not running
NoArgs == [poll_interval |-> 0, stability_timeout |-> 0, stable_checks |-> 0]

\* no call of wait_for_stable_file is under way
NoWait ==
    /\ timeout = 0
    /\ interval = 0
    /\ stable_checks = 0
    /\ wf_pc = "idle"
    /\ clock = 0
    /\ last_size = Gone
    /\ consecutive = 0
    /\ stable = "none"
    /\ checks = <<>>

\* the names files have in the watched directory: that of a file that was
\* there before the script started, those under which files are added later
\* (one of them hidden) and those generate_random_name returns
AddedNames == {"new", "new2", ".tmp"}
RandomNames == {"r1", "r2"}
Names == {"old"} \cup AddedNames \cup RandomNames

\* no file has the name
NoEntry == [id |-> 0, image |-> FALSE]

\* the directory is not followed name by name
NoDir ==
    /\ dir = [n \in Names |-> NoEntry]
    /\ dry_run = FALSE
    /\ todo = {}
    /\ attempts = <<>>

\* the watcher script is not running
NoWatcher ==
    /\ NoDir
    /\ file = NoFile
    /\ args = NoArgs
    /\ seen = {}
    /\ wd_pc = "none"
    /\ NoWait

InitSync == InitLoader /\ arg \in [image : Images, out : ModelOutputs] /\ NoWatcher

InitAsync == InitLoader /\ arg = NoArg /\ NoWatcher

(***************************************************************************)
(* The synchronous path: load_model and predict_single called in turn      *)
(***************************************************************************)
load_model(outcome) ==
    LET r == LoadModel(use_mock, model, class_names, outcome)
    IN  /\ use_mock' = r.use_mock
        /\ model' = r.model
        /\ class_names' = r.class_names
        /\ ret' = [op |-> "load_model", outcome |-> outcome, mock_before |-> use_mock,
                   value |-> r.value, raised |-> r.raised]
        /\ UNCHANGED <<YOLO, queueVars, workerVars, callerVars, restVars, ctlVars>>

predict_single(image, out) ==
    LET r == PredictSingle(use_mock, model, class_names, image, out)
    IN  /\ ret' = [op |-> "predict_single", image |-> image, out |-> out,
                   mock |-> use_mock, model |-> model, names |-> class_names,
                   img |-> r.img, det |-> r.det]
        /\ UNCHANGED <<loaderVars, queueVars, workerVars, callerVars, restVars, ctlVars>>

NextSync ==
    \/ \E outcome \in LoadOutcomes : load_model(outcome)
    \/ predict_single(arg.image, arg.out)

SpecSync == InitSync /\ [][NextSync]_vars

(***************************************************************************)
(* The asynchronous path.  One thread (the UI thread) owns the loader: it  *)
(* loads the model and starts the worker once, calls predict_async, and    *)
(* stops the worker when the window closes.  The worker thread runs        *)
(* _process_queue.  Queue operations are atomic (queue.Queue locks).       *)
(***************************************************************************)
QueueMaxSize == 1

\* the detection the worker builds in mock mode (no class_id key)
MockDetection == [class_name |-> "Mock", confidence |-> 95, class_id |-> -1]

\* what self.model.predict(..., max_det=1) can hand back to the worker
AsyncOutputs ==
    {[kind |-> "raise"], [kind |-> "empty"], [kind |-> "noboxes"],
     [kind |-> "boxes", boxes |-> <<>>]}
    \cup {[kind |-> "boxes", boxes |-> <<b>>] : b \in {x \in Box : x.conf = 81}}

\* what the model answers for the one image a handler passes to predict_single
HandlerOutputs ==
    {[kind |-> "raise"], [kind |-> "empty"],
     [kind |-> "boxes", boxes |-> <<[conf |-> 81, cls |-> 5]>>]}

\* MainWindow.load_model: load_model always answers True, so the worker is
\* always started; it is called once, from MainWindow.__init__
MainWindow_load_model(outcome) ==
    /\ w_pc = "none"
    /\ pa_pc = "idle"
    /\ LET r == LoadModel(use_mock, model, class_names, outcome)
       IN  /\ use_mock' = r.use_mock
           /\ model' = r.model
           /\ class_names' = r.class_names
           /\ ret' = [op |-> "load_model", outcome |-> outcome, mock_before |-> use_mock,
                      value |-> r.value, raised |-> r.raised]
           /\ IF r.value
              THEN \* start_processing
                   /\ is_processing' = TRUE
                   /\ w_pc' = "loop"
              ELSE UNCHANGED <<is_processing, w_pc>>
    /\ UNCHANGED <<YOLO, detection_queue, result_queue, last_result,
                   w_frame, w_result, completed, callerVars, restVars, ctlVars>>

\* stop_processing (from closeEvent): clear the flag, join for at most 0.5 s
stop_processing ==
    /\ pa_pc = "idle"
    /\ is_processing
    /\ is_processing' = FALSE
    /\ ret' = [op |-> "stop_processing"]
    /\ UNCHANGED <<loaderVars, detection_queue, result_queue, last_result,
                   workerVars, callerVars, restVars, ctlVars>>

\* ---- _process_queue ----------------------------------------------------
\* while self.is_processing:
W_Loop ==
    /\ w_pc = "loop"
    /\ w_pc' = IF is_processing THEN "get" ELSE "done"
    /\ UNCHANGED <<loaderVars, queueVars, w_frame, w_result, completed, callerVars, restVars, ctlVars, ret>>

\* frame = self.detection_queue.get(timeout=0.01); Empty -> except: continue
W_Get ==
    /\ w_pc = "get"
    /\ IF detection_queue # <<>> /\ completed < MaxInfer
       THEN /\ w_frame' = Head(detection_queue)
            /\ detection_queue' = Tail(detection_queue)
            /\ w_pc' = "infer"
       ELSE /\ w_pc' = "loop"
            /\ UNCHANGED <<w_frame, detection_queue>>
    /\ UNCHANGED <<loaderVars, result_queue, is_processing, last_result,
                   w_result, completed, callerVars, restVars, ctlVars, ret>>

\* the (display_frame, detection) of one inference: display_frame is a fresh
\* copy of the frame; only the mock branch draws on it
WorkerResult(um, cn, frame, n, out) ==
    IF um
    THEN [img |-> [src |-> frame, copy |-> n, drawn |-> <<0>>], det |-> MockDetection]
    ELSE [img |-> [src |-> frame, copy |-> n, drawn |-> <<>>],
          det |-> IF out.kind = "boxes" /\ out.boxes # <<>>
                  THEN Detection(cn, out.boxes[1])
                  ELSE None]

\* a worker whose loop ends when the model raises
W_Infer_diesOnError(out) ==
    /\ w_pc = "infer"
    /\ IF ~use_mock /\ (model = "None" \/ out.kind = "raise")
       THEN /\ w_pc' = "done"
            /\ UNCHANGED <<last_result, w_result, completed>>
       ELSE LET r == WorkerResult(use_mock, class_names, w_frame, completed + 1, out)
            IN  /\ last_result' = r
                /\ w_result' = r
                /\ completed' = completed + 1
                /\ w_pc' = "check"
    /\ w_frame' = 0
    /\ UNCHANGED <<loaderVars, detection_queue, result_queue, is_processing,
                   callerVars, restVars, ctlVars, ret>>

\* inference on the frame taken, then self.last_result = (display_frame, detection)
W_Infer(out) ==
    /\ w_pc = "infer"
    /\ IF ~use_mock /\ (model = "None" \/ out.kind = "raise")
       THEN \* self.model.predict raised: except: continue
            /\ w_pc' = "loop"
            /\ UNCHANGED <<last_result, w_result, completed>>
       ELSE LET r == WorkerResult(use_mock, class_names, w_frame, completed + 1, out)
            IN  /\ last_result' = r
                /\ w_result' = r
                /\ completed' = completed + 1
                /\ w_pc' = "check"
    /\ w_frame' = 0
    /\ UNCHANGED <<loaderVars, detection_queue, result_queue, is_processing,
                   callerVars, restVars, ctlVars, ret>>

\* a worker that publishes without looking at the result slot
W_Check_always ==
    /\ w_pc = "check"
    /\ w_pc' = "put"
    /\ UNCHANGED <<loaderVars, queueVars, w_frame, w_result, completed, callerVars, restVars, ctlVars, ret>>

\* if self.result_queue.empty():
W_Check ==
    /\ w_pc = "check"
    /\ w_pc' = IF result_queue = <<>> THEN "put" ELSE "loop"
    /\ w_result' = IF result_queue = <<>> THEN w_result ELSE NoResult
    /\ UNCHANGED <<loaderVars, queueVars, w_frame, completed, callerVars, restVars, ctlVars, ret>>

\* self.result_queue.put(...): a blocking put, it waits while the slot is full
W_Put ==
    /\ w_pc = "put"
    /\ Len(result_queue) < QueueMaxSize
    /\ result_queue' = Append(result_queue, w_result)
    /\ w_pc' = "loop"
    /\ w_result' = NoResult
    /\ UNCHANGED <<loaderVars, detection_queue, is_processing, last_result,
                   w_frame, completed, callerVars, restVars, ctlVars, ret>>

\* ---- predict_async -----------------------------------------------------
\* a call that, with the loop not running, answers the last known result
PA_Begin_returnsLast(frame) ==
    /\ pa_pc = "idle"
    /\ IF ~is_processing
       THEN /\ ret' = [op |-> "predict_async", frame |-> frame, running |-> FALSE,
                       source |-> "not_processing",
                       res |-> IF last_result # NoResult THEN last_result
                               ELSE [img |-> Original(frame), det |-> None],
                       begin_latest |-> completed, latest |-> completed]
            /\ UNCHANGED callerVars
       ELSE /\ pa_pc' = "submit"
            /\ pa_frame' = frame
            /\ pa_dropped' = FALSE
            /\ pa_latest' = completed
            /\ UNCHANGED ret
    /\ UNCHANGED <<loaderVars, queueVars, workerVars, restVars, ctlVars>>

\* if not self.is_processing: return frame, None
PA_Begin(frame) ==
    /\ pa_pc = "idle"
    /\ IF ~is_processing
       THEN /\ ret' = [op |-> "predict_async", frame |-> frame, running |-> FALSE,
                       source |-> "not_processing",
                       res |-> [img |-> Original(frame), det |-> None],
                       begin_latest |-> completed, latest |-> completed]
            /\ UNCHANGED callerVars
       ELSE /\ pa_pc' = "submit"
            /\ pa_frame' = frame
            /\ pa_dropped' = FALSE
            /\ pa_latest' = completed
            /\ UNCHANGED ret
    /\ UNCHANGED <<loaderVars, queueVars, workerVars, restVars, ctlVars>>

\* a submit that appends without looking at the slot, to an unbounded queue
PA_Submit_unbounded ==
    /\ pa_pc = "submit"
    /\ detection_queue' = Append(detection_queue, pa_frame)
    /\ pa_dropped' = FALSE
    /\ pa_pc' = "get"
    /\ UNCHANGED <<loaderVars, result_queue, is_processing, last_result,
                   workerVars, pa_frame, pa_latest, restVars, ctlVars, ret>>

\* if self.detection_queue.empty(): put_nowait(frame), Full swallowed.
\* Only this thread puts and the worker only takes, so nothing the worker
\* does between empty() and put_nowait() changes what either of them does.
PA_Submit ==
    /\ pa_pc = "submit"
    /\ IF detection_queue = <<>> /\ Len(detection_queue) < QueueMaxSize
       THEN /\ detection_queue' = Append(detection_queue, pa_frame)
            /\ pa_dropped' = FALSE
       ELSE /\ pa_dropped' = TRUE
            /\ UNCHANGED detection_queue
    /\ pa_pc' = "get"
    /\ UNCHANGED <<loaderVars, result_queue, is_processing, last_result,
                   workerVars, pa_frame, pa_latest, restVars, ctlVars, ret>>

\* a predict_async that waits for a result: get() in place of get_nowait()
PA_Get_blocking ==
    /\ pa_pc = "get"
    /\ result_queue # <<>>
    /\ ret' = [op |-> "predict_async", frame |-> pa_frame, running |-> TRUE,
               source |-> "queue", res |-> Head(result_queue),
               begin_latest |-> pa_latest, latest |-> completed]
    /\ result_queue' = Tail(result_queue)
    /\ pa_pc' = "idle"
    /\ pa_frame' = 0 /\ pa_dropped' = FALSE /\ pa_latest' = 0
    /\ UNCHANGED <<loaderVars, detection_queue, is_processing, last_result,
                   workerVars, restVars, ctlVars>>

\* return self.result_queue.get_nowait(); Empty -> the except branch
PA_Get ==
    /\ pa_pc = "get"
    /\ IF result_queue # <<>>
       THEN /\ ret' = [op |-> "predict_async", frame |-> pa_frame, running |-> TRUE,
                       source |-> "queue", res |-> Head(result_queue),
                       begin_latest |-> pa_latest, latest |-> completed]
            /\ result_queue' = Tail(result_queue)
            /\ pa_pc' = "idle"
            /\ pa_frame' = 0 /\ pa_dropped' = FALSE /\ pa_latest' = 0
       ELSE /\ pa_pc' = "last"
            /\ UNCHANGED <<ret, result_queue, pa_frame, pa_dropped, pa_latest>>
    /\ UNCHANGED <<loaderVars, detection_queue, is_processing, last_result,
                   workerVars, restVars, ctlVars>>

\* a fallback that hands back last_result even when it is still None
PA_Last_noFallback ==
    /\ pa_pc = "last"
    /\ ret' = [op |-> "predict_async", frame |-> pa_frame, running |-> TRUE,
               source |-> "last", res |-> last_result,
               begin_latest |-> pa_latest, latest |-> completed]
    /\ pa_pc' = "idle"
    /\ pa_frame' = 0 /\ pa_dropped' = FALSE /\ pa_latest' = 0
    /\ UNCHANGED <<loaderVars, queueVars, workerVars, restVars, ctlVars>>

\* return self.last_result if self.last_result else (frame, None)
PA_Last ==
    /\ pa_pc = "last"
    /\ ret' = [op |-> "predict_async", frame |-> pa_frame, running |-> TRUE,
               source |-> IF last_result # NoResult THEN "last" ELSE "fallback",
               res |-> IF last_result # NoResult THEN last_result
                       ELSE [img |-> Original(pa_frame), det |-> None],
               begin_latest |-> pa_latest, latest |-> completed]
    /\ pa_pc' = "idle"
    /\ pa_frame' = 0 /\ pa_dropped' = FALSE /\ pa_latest' = 0
    /\ UNCHANGED <<loaderVars, queueVars, workerVars, restVars, ctlVars>>

PA_Step == PA_Submit \/ PA_Get \/ PA_Last

NextAsync ==
    \/ \E outcome \in LoadOutcomes : MainWindow_load_model(outcome)
    \/ stop_processing
    \/ W_Loop
    \/ W_Get
    \/ \E out \in AsyncOutputs : W_Infer(out)
    \/ W_Check
    \/ W_Put
    \/ \E frame \in Images : PA_Begin(frame)
    \/ PA_Submit
    \/ PA_Get
    \/ PA_Last
    \/ \E out \in HandlerOutputs : pa_pc = "idle" /\ predict_single(1, out)

SpecAsync == InitAsync /\ [][NextAsync]_vars

\* what the model answers in the runs that follow the submission slot
SlotOutputs == {[kind |-> "raise"], [kind |-> "boxes", boxes |-> <<[conf |-> 81, cls |-> 5]>>]}

\* the loader, its worker and a caller that submits one frame after another
NextSlot ==
    \/ \E outcome \in LoadOutcomes : MainWindow_load_model(outcome)
    \/ stop_processing
    \/ W_Loop
    \/ W_Get
    \/ \E out \in SlotOutputs : W_Infer(out)
    \/ W_Check
    \/ W_Put
    \/ PA_Begin(1)
    \/ PA_Submit
    \/ PA_Get
    \/ PA_Last

\* the worker thread is scheduled, and the model's predict returns or raises
SlotFairness ==
    /\ WF_vars(W_Loop)
    /\ WF_vars(W_Get)
    /\ WF_vars(\E out \in SlotOutputs : W_Infer(out))
    /\ WF_vars(W_Check)
    /\ WF_vars(W_Put)

SpecSlot == InitAsync /\ [][NextSlot]_vars /\ SlotFairness

(***************************************************************************)
(* The frame source (CameraThread) and the control surface (MainWindow).   *)
(* Handlers run on the UI thread, one at a time; the capture loop runs on  *)
(* its own QThread and its frame_ready signals are queued for the UI       *)
(* thread.  MainWindow.__init__ has loaded the model and started the       *)
(* worker; nothing in MainWindow calls predict_async, so the worker only   *)
(* polls its empty queue and its steps are left out of this specification. *)
(***************************************************************************)
max_failures == 10

MaxEvents == 1          \* frame_ready signals queued for the UI thread
MaxFiles  == 2          \* image files found in one folder

\* the frames the device delivers
CameraFrames == {1, 2}

\* for test_port in [port, 1, 2, 3], with port = 0 from MainWindow.start_camera
Candidates == <<0, 1, 2, 3>>

\* what each candidate does when opened: it does not open (or raises), it
\* opens and none of the 3 trial reads yields a frame, or it yields one
DeviceStates ==
    {d \in [{0, 1, 2, 3} -> {"absent", "silent", "ok"}] :
        \A p \in {2, 3} : d[p] # "silent"}

\* the first candidate that opens is accepted without a trial read
FirstOk_acceptsSilent(dev) ==
    LET ok == {i \in 1..Len(Candidates) : dev[Candidates[i]] # "absent"}
    IN  IF ok = {} THEN 0 ELSE CHOOSE i \in ok : \A j \in ok : i <= j

\* index of the first candidate accepted, 0 if there is none
FirstOk(dev) ==
    LET ok == {i \in 1..Len(Candidates) : dev[Candidates[i]] = "ok"}
    IN  IF ok = {} THEN 0 ELSE CHOOSE i \in ok : \A j \in ok : i <= j

\* a file of the folder: cv2.imread returns None for it, or it is read, or it
\* is read and cv2.imwrite raises for its extension
FileKinds == {"unreadable", "readable", "unwritable"}

\* what rglob finds in the chosen folder
Batches == SeqsUpTo(FileKinds, MaxFiles)

\* a device that opens on port 0 and yields a frame at once
GoodDevice == [p \in {0, 1, 2, 3} |-> IF p = 0 THEN "ok" ELSE "absent"]

\* an ImportError in ModelLoader.__init__, a load that fails, a load that works
StartupOutcomes == {"names", "ctor_raises"}

\* MainWindow.__init__: ModelLoader(), CameraThread(), then load_model
\* (ModelLoader.load_model and start_processing)
InitControl ==
    /\ YOLO \in BOOLEAN
    /\ \E outcome \in StartupOutcomes :
          LET r == LoadModel(~YOLO, "None", NoNames, outcome)
          IN  /\ use_mock = r.use_mock
              /\ model = r.model
              /\ class_names = r.class_names
    /\ is_processing = TRUE
    /\ w_pc = "loop"
    /\ InitQueues
    /\ InitControlFields
    /\ arg = NoArg
    /\ ret = NoCall
    /\ NoWatcher

\* ---- CameraThread.run --------------------------------------------------
\* a capture loop that ignores its run flag
T_Loop_ignoresFlag ==
    /\ t_pc = "loop"
    /\ t_pc' = "check"
    /\ UNCHANGED <<loaderVars, queueVars, workerVars, callerVars, restVars, ret,
                   camera, is_running, consecutive_failures,
                   winVars, btnVars, uiVars>>

\* while self.is_running:
T_Loop ==
    /\ t_pc = "loop"
    /\ t_pc' = IF is_running THEN "check" ELSE "exit"
    /\ UNCHANGED <<loaderVars, queueVars, workerVars, callerVars, restVars, ret,
                   camera, is_running, consecutive_failures,
                   winVars, btnVars, uiVars>>

\* a loop that gives up on reaching max_failures
T_Failure_abortsAtThreshold ==
    /\ consecutive_failures' = consecutive_failures + 1
    /\ t_pc' = IF consecutive_failures + 1 >= max_failures THEN "exit" ELSE "loop"

\* self.consecutive_failures += 1; break past max_failures, else continue
T_Failure ==
    /\ consecutive_failures' = consecutive_failures + 1
    /\ t_pc' = IF consecutive_failures + 1 > max_failures THEN "exit" ELSE "loop"

\* if not self.camera or not self.camera.isOpened():
T_Check ==
    /\ t_pc = "check"
    /\ IF camera = NoCamera
       THEN T_Failure
       ELSE t_pc' = "read" /\ UNCHANGED consecutive_failures
    /\ UNCHANGED <<loaderVars, queueVars, workerVars, callerVars, restVars, ret,
                   camera, is_running, winVars, btnVars, uiVars>>

\* a read outside the try block: with self.camera set to None since the
\* check, the AttributeError leaves run() and the thread dies of it
T_Read_unguarded(outcome, frame) ==
    /\ t_pc = "read"
    /\ IF camera = NoCamera
       THEN /\ t_pc' = "crashed"
            /\ UNCHANGED <<consecutive_failures, frame_events>>
       ELSE IF outcome \in {"no_frame", "raises"}
       THEN T_Failure /\ UNCHANGED frame_events
       ELSE /\ Len(frame_events) < MaxEvents
            /\ consecutive_failures' = 0
            /\ frame_events' = Append(frame_events, frame)
            /\ t_pc' = "loop"
    /\ UNCHANGED <<loaderVars, queueVars, workerVars, callerVars, restVars, ret,
                   camera, is_running, winVars, btnVars,
                   ui_pc, ui_cont, snapshot_frame, timer, fp_pc, fp_finished, fpVars, was_stopped>>

\* ret, frame = self.camera.read(), and the rest of the iteration.  With
\* self.camera set to None since the check, the call raises AttributeError
\* into the except branch.
T_Read(outcome, frame) ==
    /\ t_pc = "read"
    /\ IF camera = NoCamera \/ outcome \in {"no_frame", "raises"}
       THEN T_Failure /\ UNCHANGED frame_events
       ELSE /\ Len(frame_events) < MaxEvents
            /\ consecutive_failures' = 0
            /\ frame_events' = Append(frame_events, frame)
            /\ t_pc' = "loop"
    /\ UNCHANGED <<loaderVars, queueVars, workerVars, callerVars, restVars, ret,
                   camera, is_running, winVars, btnVars,
                   ui_pc, ui_cont, snapshot_frame, timer, fp_pc, fp_finished, fpVars, was_stopped>>

\* run() returns, and its last act is to turn the control state off
T_Finish_reportsAbort ==
    /\ t_pc = "exit"
    /\ t_pc' = "none"
    /\ is_camera_on' = FALSE
    /\ UNCHANGED <<loaderVars, queueVars, workerVars, callerVars, restVars, ret,
                   camera, is_running, consecutive_failures,
                   processing_files, last_camera_frame, frame_counter,
                   btnVars, uiVars>>

\* run() has returned: the QThread finishes and isRunning() becomes false
T_Finish ==
    /\ t_pc = "exit"
    /\ t_pc' = "none"
    /\ UNCHANGED <<loaderVars, queueVars, workerVars, callerVars, restVars, ret,
                   camera, is_running, consecutive_failures,
                   winVars, btnVars, uiVars>>

\* ---- CameraThread.stop_camera, as every handler enters it --------------
\* a stop that clears the run flag and keeps the device
EnterStopCamera_keepsDevice(cont) ==
    /\ is_running' = FALSE
    /\ camera' = camera
    /\ ui_pc' = "wait"
    /\ ui_cont' = cont

\* self.is_running = False; release; self.camera = None; then, if
\* self.isRunning(), self.wait(300)
EnterStopCamera(cont) ==
    /\ is_running' = FALSE
    /\ camera' = NoCamera
    /\ ui_pc' = "wait"
    /\ ui_cont' = cont

\* the rest of MainWindow.stop_camera
StopButtons ==
    /\ start_btn' = TRUE
    /\ stop_btn' = FALSE
    /\ snapshot_btn' = FALSE
    /\ was_stopped' = TRUE

\* what the handler does once stop_camera has returned
AfterStopCamera ==
    /\ ui_cont' = "none"
    /\ CASE ui_cont = "start" ->
              \* time.sleep(0.2), then the candidates are tried
              /\ ui_pc' = "start_open"
              /\ UNCHANGED <<btnVars, was_stopped, timer, ret>>
         [] ui_cont = "stop" ->
              /\ StopButtons
              /\ ui_pc' = "idle"
              /\ ret' = [op |-> "stop_camera"]
              /\ UNCHANGED <<upload_btn, folder_btn, timer>>
         [] ui_cont = "start_fail" ->
              \* handle_camera_error is over, start_camera returns False
              /\ StopButtons
              /\ ui_pc' = "idle"
              /\ ret' = [op |-> "start_camera", value |-> "False", device |-> FALSE,
                         error |-> "No camera found on ports 0-3"]
              /\ UNCHANGED <<upload_btn, folder_btn, timer>>
         [] ui_cont = "snapshot" ->
              \* QTimer.singleShot(100, process_snapshot)
              /\ StopButtons
              /\ ui_pc' = "idle"
              /\ timer' = "snapshot"
              /\ ret' = [op |-> "take_snapshot", value |-> "taken"]
              /\ UNCHANGED <<upload_btn, folder_btn>>
         [] ui_cont = "upload_image" ->
              /\ StopButtons
              /\ ui_pc' = "dialog_image"
              /\ UNCHANGED <<upload_btn, folder_btn, timer, ret>>
         [] ui_cont = "upload_folder" ->
              /\ StopButtons
              /\ ui_pc' = "dialog_folder"
              /\ UNCHANGED <<upload_btn, folder_btn, timer, ret>>
         [] ui_cont = "close" ->
              \* closeEvent goes on to stop_processing
              /\ StopButtons
              /\ ui_pc' = "close_stop"
              /\ UNCHANGED <<upload_btn, folder_btn, timer, ret>>
    /\ UNCHANGED <<loaderVars, queueVars, workerVars, callerVars, restVars,
                   camVars, winVars, snapshot_frame, frame_events, fp_pc, fp_finished, fpVars>>

\* the capture thread is not running, or it finished within the 300 ms
Wait_Finished ==
    /\ ui_pc = "wait"
    /\ t_pc = "none"
    /\ AfterStopCamera

\* self.wait() without a timeout: the handler goes on only once the capture
\* thread has finished
Wait_TimedOut_unbounded ==
    /\ ui_pc = "wait"
    /\ t_pc # "none"
    /\ FALSE
    /\ AfterStopCamera

\* self.wait(300) gave up: the capture thread is still running
Wait_TimedOut ==
    /\ ui_pc = "wait"
    /\ t_pc # "none"
    /\ AfterStopCamera

\* ---- MainWindow.start_camera -------------------------------------------
\* a start command that does not look at the processing flag
ClickStart_ignoresProcessing ==
    /\ ui_pc = "idle"
    /\ start_btn
    /\ EnterStopCamera("start")
    /\ UNCHANGED <<consecutive_failures, t_pc, ret>>
    /\ UNCHANGED <<loaderVars, queueVars, workerVars, callerVars, restVars, winVars, btnVars,
                   snapshot_frame, timer, frame_events, fp_pc, fp_finished, fpVars, was_stopped>>

ClickStart ==
    /\ ui_pc = "idle"
    /\ start_btn
    /\ IF processing_files
       THEN /\ ret' = [op |-> "start_camera", value |-> "refused", device |-> FALSE,
                         error |-> ""]
            /\ UNCHANGED <<camVars, ui_pc, ui_cont>>
       ELSE /\ EnterStopCamera("start")
            /\ UNCHANGED <<consecutive_failures, t_pc, ret>>
    /\ UNCHANGED <<loaderVars, queueVars, workerVars, callerVars, restVars, winVars, btnVars,
                   snapshot_frame, timer, frame_events, fp_pc, fp_finished, fpVars, was_stopped>>

\* QThread.start(): the position of the thread after the call; with the
\* thread still running the call does nothing
QThreadStart(pc) == IF pc = "none" THEN "loop" ELSE pc

\* a start that leaves the snapshot button disabled
StartedButtons_noSnapshot ==
    /\ start_btn' = FALSE
    /\ stop_btn' = TRUE
    /\ snapshot_btn' = FALSE

\* MainWindow.start_camera once the frame source has answered True
StartedButtons ==
    /\ start_btn' = FALSE
    /\ stop_btn' = TRUE
    /\ snapshot_btn' = TRUE

\* CameraThread.start_camera after its stop_camera, and the rest of
\* MainWindow.start_camera
StartOpen(dev) ==
    /\ ui_pc = "start_open"
    /\ LET i == FirstOk(dev)
       IN  IF i # 0
           THEN /\ camera' = Candidates[i]
                /\ is_running' = TRUE
                /\ consecutive_failures' = 0
                /\ t_pc' = QThreadStart(t_pc)
                /\ is_camera_on' = TRUE
                /\ StartedButtons
                /\ ui_pc' = "idle"
                /\ ret' = [op |-> "start_camera", value |-> "True", device |-> TRUE,
                           error |-> ""]
                /\ UNCHANGED ui_cont
           ELSE \* camera_error is emitted on the UI thread: handle_camera_error
                \* runs MainWindow.stop_camera before start_camera returns False
                /\ is_camera_on' = FALSE
                /\ EnterStopCamera("start_fail")
                /\ UNCHANGED <<consecutive_failures, t_pc,
                               start_btn, stop_btn, snapshot_btn, ret>>
    /\ UNCHANGED <<loaderVars, queueVars, workerVars, callerVars, restVars,
                   processing_files, last_camera_frame, frame_counter,
                   upload_btn, folder_btn,
                   snapshot_frame, timer, frame_events, fp_pc, fp_finished, fpVars, was_stopped>>

\* ---- MainWindow.stop_camera --------------------------------------------
ClickStop ==
    /\ ui_pc = "idle"
    /\ stop_btn
    /\ is_camera_on' = FALSE
    /\ EnterStopCamera("stop")
    /\ UNCHANGED <<loaderVars, queueVars, workerVars, callerVars, restVars, ret,
                   consecutive_failures, t_pc,
                   processing_files, last_camera_frame, frame_counter, btnVars,
                   snapshot_frame, timer, frame_events, fp_pc, fp_finished, fpVars, was_stopped>>

\* the annotated image is saved whatever predict returned
Persist_always(det) == TRUE

\* whether "if detection:" saves the annotated image
Persist(det) == det # None

\* ---- show_loading / hide_loading ---------------------------------------
\* a hide_loading that leaves the processing flag set
HideLoading_stillLoading ==
    /\ processing_files' = TRUE
    /\ upload_btn' = TRUE
    /\ folder_btn' = TRUE
    /\ start_btn' = ~is_camera_on
    /\ snapshot_btn' = is_camera_on
    /\ UNCHANGED stop_btn

HideLoading ==
    /\ processing_files' = FALSE
    /\ upload_btn' = TRUE
    /\ folder_btn' = TRUE
    /\ start_btn' = ~is_camera_on
    /\ snapshot_btn' = is_camera_on
    /\ UNCHANGED stop_btn

\* ---- take_snapshot and process_snapshot --------------------------------
ClickSnapshot ==
    /\ ui_pc = "idle"
    /\ snapshot_btn
    /\ IF ~is_camera_on \/ processing_files
       THEN /\ ret' = [op |-> "take_snapshot", value |-> "ignored"]
            /\ UNCHANGED <<camVars, winVars, btnVars, ui_pc, ui_cont, snapshot_frame>>
       ELSE IF last_camera_frame # 0
       THEN /\ snapshot_frame' = last_camera_frame
            \* show_loading, then stop_camera
            /\ processing_files' = TRUE
            /\ upload_btn' = FALSE
            /\ folder_btn' = FALSE
            /\ start_btn' = FALSE
            /\ snapshot_btn' = FALSE
            /\ is_camera_on' = FALSE
            /\ EnterStopCamera("snapshot")
            /\ UNCHANGED <<consecutive_failures, t_pc, last_camera_frame,
                           frame_counter, stop_btn, ret>>
       ELSE /\ ret' = [op |-> "take_snapshot", value |-> "no_frame"]
            /\ UNCHANGED <<camVars, winVars, btnVars, ui_pc, ui_cont, snapshot_frame>>
    /\ UNCHANGED <<loaderVars, queueVars, workerVars, callerVars, restVars,
                   timer, frame_events, fp_pc, fp_finished, fpVars, was_stopped>>

ProcessSnapshot(out) ==
    /\ ui_pc = "idle"
    /\ timer = "snapshot"
    /\ LET r == PredictSingle(use_mock, model, class_names, snapshot_frame, out)
       IN  ret' = [op |-> "process_snapshot", det |-> r.det, saved |-> Persist(r.det)]
    /\ HideLoading
    /\ timer' = "none"
    /\ snapshot_frame' = 0
    /\ UNCHANGED <<loaderVars, queueVars, workerVars, callerVars, restVars, camVars,
                   is_camera_on, last_camera_frame, frame_counter,
                   ui_pc, ui_cont, frame_events, fp_pc, fp_finished, fpVars, was_stopped>>

\* ---- upload_image, upload_folder ---------------------------------------
\* an upload that opens its dialog without stopping the camera
ClickUpload_noAutoStop(kind) ==
    /\ ui_pc = "idle"
    /\ IF kind = "image" THEN upload_btn ELSE folder_btn
    /\ IF processing_files
       THEN /\ ret' = [op |-> "upload", value |-> "refused"]
            /\ UNCHANGED ui_pc
       ELSE /\ ui_pc' = IF kind = "image" THEN "dialog_image" ELSE "dialog_folder"
            /\ UNCHANGED ret
    /\ UNCHANGED <<loaderVars, queueVars, workerVars, callerVars, restVars, camVars, winVars,
                   btnVars, ui_cont, snapshot_frame, timer, frame_events, fp_pc,
                   fp_finished, fpVars, was_stopped>>

ClickUpload(kind) ==
    /\ ui_pc = "idle"
    /\ IF kind = "image" THEN upload_btn ELSE folder_btn
    /\ IF processing_files
       THEN /\ ret' = [op |-> "upload", value |-> "refused"]
            /\ UNCHANGED <<camVars, is_camera_on, ui_pc, ui_cont>>
       ELSE IF is_camera_on
       THEN \* auto_stop_camera_for_upload
            /\ is_camera_on' = FALSE
            /\ EnterStopCamera(IF kind = "image" THEN "upload_image" ELSE "upload_folder")
            /\ UNCHANGED <<consecutive_failures, t_pc, ret>>
       ELSE /\ ui_pc' = IF kind = "image" THEN "dialog_image" ELSE "dialog_folder"
            /\ UNCHANGED <<camVars, is_camera_on, ui_cont, ret>>
    /\ UNCHANGED <<loaderVars, queueVars, workerVars, callerVars, restVars,
                   processing_files, last_camera_frame, frame_counter, btnVars,
                   snapshot_frame, timer, frame_events, fp_pc, fp_finished, fpVars, was_stopped>>

\* the file dialog returns a path or nothing; with a path: show_loading and
\* QTimer.singleShot(100, ...)
Dialog(chosen) ==
    /\ ui_pc \in {"dialog_image", "dialog_folder"}
    /\ ui_pc' = "idle"
    /\ IF chosen
       THEN /\ processing_files' = TRUE
            /\ upload_btn' = FALSE
            /\ folder_btn' = FALSE
            /\ start_btn' = FALSE
            /\ snapshot_btn' = FALSE
            /\ timer' = IF ui_pc = "dialog_image" THEN "image" ELSE "folder"
            /\ UNCHANGED stop_btn
       ELSE UNCHANGED <<processing_files, btnVars, timer>>
    /\ UNCHANGED <<loaderVars, queueVars, workerVars, callerVars, restVars, ret, camVars,
                   is_camera_on, last_camera_frame, frame_counter,
                   ui_cont, snapshot_frame, frame_events, fp_pc, fp_finished, fpVars, was_stopped>>

\* process_single_image.  cv2.imwrite raising is not caught here: the
\* finally clause runs hide_loading and the exception leaves the handler.
ProcessImage(kind, out) ==
    /\ ui_pc = "idle"
    /\ timer = "image"
    /\ LET r == PredictSingle(use_mock, model, class_names, 1, out)
       IN  ret' = IF kind = "unreadable"
                  THEN [op |-> "process_single_image", kind |-> kind, det |-> None,
                        saved |-> FALSE, raised |-> FALSE]
                  ELSE [op |-> "process_single_image", kind |-> kind, det |-> r.det,
                        saved |-> Persist(r.det) /\ kind # "unwritable",
                        raised |-> Persist(r.det) /\ kind = "unwritable"]
    /\ HideLoading
    /\ timer' = "none"
    /\ UNCHANGED <<loaderVars, queueVars, workerVars, callerVars, restVars, camVars,
                   is_camera_on, last_camera_frame, frame_counter,
                   ui_pc, ui_cont, snapshot_frame, frame_events, fp_pc, fp_finished,
                   fpVars, was_stopped>>

\* QThread.start() of the FileProcessor: nothing if it is still running
FP_Start(pc) == IF pc = "none" THEN "run" ELSE pc

\* start_folder_processing: add_folder appends what rglob finds, then
\* FileProcessor.start()
StartFolderProcessing(found) ==
    /\ ui_pc = "idle"
    /\ timer = "folder"
    /\ timer' = "none"
    /\ files_to_process' = files_to_process \o found
    /\ fp_pc' = FP_Start(fp_pc)
    /\ UNCHANGED <<loaderVars, queueVars, workerVars, callerVars, restVars, ret, camVars,
                   winVars, btnVars, ui_pc, ui_cont, snapshot_frame, frame_events,
                   fp_finished, fp_i, fp_total, fp_log, was_stopped>>

\* ---- FileProcessor.run -------------------------------------------------
\* os.makedirs; total_files = len(self.files_to_process)
FP_Begin ==
    /\ fp_pc = "run"
    /\ fp_pc' = "loop"
    /\ fp_total' = Len(files_to_process)
    /\ fp_i' = 0
    /\ UNCHANGED <<loaderVars, queueVars, workerVars, callerVars, restVars, ret, camVars,
                   winVars, btnVars, ui_pc, ui_cont, snapshot_frame, timer, frame_events,
                   fp_finished, files_to_process, fp_log, was_stopped>>

\* the signals of one iteration, were an unreadable file passed over in silence
FileEvents_silentSkip(kind, det, i, total) ==
    LET outcome ==
            IF ~Persist(det) THEN "No detection"
            ELSE IF kind = "unwritable" THEN "Error"
            ELSE "Detected"
        processing == [ev |-> "Processing", i |-> i, total |-> total,
                       det |-> FALSE, saved |-> FALSE]
    IN  IF kind = "unreadable"
        THEN <<processing>>
        ELSE <<processing,
               [ev |-> outcome, i |-> i, total |-> total,
                det |-> det # None, saved |-> outcome = "Detected"]>>

\* the signals of one iteration: progress_update("Processing i/total"), then
\* the one the body ends with
FileEvents(kind, det, i, total) ==
    LET outcome ==
            IF kind = "unreadable" THEN "Skipped"
            ELSE IF ~Persist(det) THEN "No detection"
            ELSE IF kind = "unwritable" THEN "Error"
            ELSE "Detected"
    IN  <<[ev |-> "Processing", i |-> i, total |-> total, det |-> FALSE, saved |-> FALSE],
          [ev |-> outcome, i |-> i, total |-> total,
           det |-> kind # "unreadable" /\ det # None,
           saved |-> outcome = "Detected"]>>

\* one iteration of "for i, file_path in enumerate(self.files_to_process)"
FP_File(out) ==
    /\ fp_pc = "loop"
    /\ fp_i < Len(files_to_process)
    /\ LET kind == files_to_process[fp_i + 1]
           r    == PredictSingle(use_mock, model, class_names, 1, out)
       IN  fp_log' = fp_log \o FileEvents(kind, r.det, fp_i + 1, fp_total)
    /\ fp_i' = fp_i + 1
    /\ UNCHANGED <<loaderVars, queueVars, workerVars, callerVars, restVars, ret, camVars,
                   winVars, btnVars, ui_pc, ui_cont, snapshot_frame, timer, frame_events,
                   fp_pc, fp_finished, files_to_process, fp_total, was_stopped>>

\* the for loop ends before any entry is left out
Exhausted_early == TRUE

\* the for loop has no entry left
Exhausted == fp_i >= Len(files_to_process)

\* after the loop: self.files_to_process.clear();
\* self.finished_processing.emit()
FP_End ==
    /\ fp_pc = "loop"
    /\ Exhausted
    /\ files_to_process' = <<>>
    /\ fp_log' = Append(fp_log, [ev |-> "finished", i |-> fp_i, total |-> fp_total,
                                 det |-> FALSE, saved |-> FALSE])
    /\ fp_finished' = TRUE
    /\ fp_pc' = "exit"
    /\ fp_i' = 0
    /\ fp_total' = 0
    /\ UNCHANGED <<loaderVars, queueVars, workerVars, callerVars, restVars, ret, camVars,
                   winVars, btnVars, ui_pc, ui_cont, snapshot_frame, timer, frame_events,
                   was_stopped>>

\* run() has returned: the QThread finishes and isRunning() becomes false
FP_Finish ==
    /\ fp_pc = "exit"
    /\ fp_pc' = "none"
    /\ UNCHANGED <<loaderVars, queueVars, workerVars, callerVars, restVars, ret, camVars,
                   winVars, btnVars, ui_pc, ui_cont, snapshot_frame, timer, frame_events,
                   fp_finished, fpVars, was_stopped>>

\* processing_finished
ProcessingFinished ==
    /\ ui_pc = "idle"
    /\ fp_finished
    /\ fp_finished' = FALSE
    /\ fp_log' = <<>>
    /\ HideLoading
    /\ UNCHANGED <<loaderVars, queueVars, workerVars, callerVars, restVars, ret, camVars,
                   is_camera_on, last_camera_frame, frame_counter,
                   ui_pc, ui_cont, snapshot_frame, timer, frame_events, fp_pc,
                   files_to_process, fp_i, fp_total, was_stopped>>

\* ---- process_camera_frame ----------------------------------------------
\* a handler that records the frame before it tests the state
OnFrame_storesFirst(out) ==
    /\ ui_pc = "idle"
    /\ frame_events # <<>>
    /\ frame_events' = Tail(frame_events)
    /\ last_camera_frame' = Head(frame_events)
    /\ IF ~is_camera_on \/ processing_files
       THEN UNCHANGED <<frame_counter, ret>>
       ELSE /\ frame_counter' = (frame_counter + 1) % 3
            /\ IF (frame_counter + 1) % 3 = 0
               THEN LET r == PredictSingle(use_mock, model, class_names,
                                           Head(frame_events), out)
                    IN  ret' = [op |-> "process_camera_frame", det |-> r.det]
               ELSE UNCHANGED ret
    /\ UNCHANGED <<loaderVars, queueVars, workerVars, callerVars, restVars, camVars,
                   is_camera_on, processing_files, btnVars,
                   ui_pc, ui_cont, snapshot_frame, timer, fp_pc, fp_finished, fpVars, was_stopped>>

OnFrame(out) ==
    /\ ui_pc = "idle"
    /\ frame_events # <<>>
    /\ frame_events' = Tail(frame_events)
    /\ IF ~is_camera_on \/ processing_files
       THEN UNCHANGED <<last_camera_frame, frame_counter, ret>>
       ELSE /\ last_camera_frame' = Head(frame_events)
            /\ frame_counter' = (frame_counter + 1) % 3
            /\ IF (frame_counter + 1) % 3 = 0
               THEN LET r == PredictSingle(use_mock, model, class_names,
                                           Head(frame_events), out)
                    IN  ret' = [op |-> "process_camera_frame", det |-> r.det]
               ELSE UNCHANGED ret
    /\ UNCHANGED <<loaderVars, queueVars, workerVars, callerVars, restVars, camVars,
                   is_camera_on, processing_files, btnVars,
                   ui_pc, ui_cont, snapshot_frame, timer, fp_pc, fp_finished, fpVars, was_stopped>>

\* ---- closeEvent --------------------------------------------------------
\* self.stop_camera()
CloseEvent ==
    /\ ui_pc = "idle"
    /\ is_camera_on' = FALSE
    /\ EnterStopCamera("close")
    /\ UNCHANGED <<loaderVars, queueVars, workerVars, callerVars, restVars, ret,
                   consecutive_failures, t_pc,
                   processing_files, last_camera_frame, frame_counter, btnVars,
                   snapshot_frame, timer, frame_events, fp_pc, fp_finished, fpVars,
                   was_stopped>>

\* self.model_loader.stop_processing(): the flag is cleared and the thread
\* joined for at most 0.5 s; the wait for the FileProcessor is bounded too,
\* and the window is closed
CloseStopProcessing ==
    /\ ui_pc = "close_stop"
    /\ is_processing' = FALSE
    /\ ui_pc' = "closed"
    /\ ret' = [op |-> "closeEvent"]
    /\ UNCHANGED <<loaderVars, detection_queue, result_queue, last_result,
                   workerVars, callerVars, restVars, camVars, winVars, btnVars,
                   ui_cont, snapshot_frame, timer, frame_events, fp_pc, fp_finished,
                   fpVars, was_stopped>>

\* the camera with every way it can fail, the window being closed; of the
\* uploads, the single image
Next ==
    \/ T_Loop
    \/ T_Check
    \/ \E outcome \in {"frame", "no_frame", "raises"}, frame \in CameraFrames :
            T_Read(outcome, frame)
    \/ T_Finish
    \/ Wait_Finished
    \/ Wait_TimedOut
    \/ ClickStart
    \/ \E dev \in DeviceStates : StartOpen(dev)
    \/ ClickStop
    \/ ClickSnapshot
    \/ \E out \in HandlerOutputs : ProcessSnapshot(out)
    \/ ClickUpload("image")
    \/ \E chosen \in BOOLEAN : Dialog(chosen)
    \/ \E kind \in FileKinds, out \in HandlerOutputs : ProcessImage(kind, out)
    \/ \E out \in HandlerOutputs : OnFrame(out)
    \/ CloseEvent
    \/ CloseStopProcessing

Spec == InitControl /\ [][Next]_vars

\* the two loops and the commands that clear their flags: start, stop and
\* closing the window, with the worker polling its queue (MainWindow submits
\* nothing to it)
NextCancel ==
    \/ T_Loop
    \/ T_Check
    \/ \E outcome \in {"frame", "no_frame", "raises"} : T_Read(outcome, 1)
    \/ T_Finish
    \/ Wait_Finished
    \/ Wait_TimedOut
    \/ ClickStart
    \/ StartOpen(GoodDevice)
    \/ ClickStop
    \/ \E out \in HandlerOutputs : OnFrame(out)
    \/ W_Loop
    \/ W_Get
    \/ CloseEvent
    \/ CloseStopProcessing

\* both threads are scheduled: a step of theirs that stays possible is taken
CancelFairness ==
    /\ WF_vars(T_Loop)
    /\ WF_vars(T_Check)
    /\ WF_vars(\E outcome \in {"frame", "no_frame", "raises"} : T_Read(outcome, 1))
    /\ WF_vars(T_Finish)
    /\ WF_vars(W_Loop)
    /\ WF_vars(W_Get)

SpecCancel == InitControl /\ [][NextCancel]_vars /\ CancelFairness

\* every upload, the folder's batch included, with a camera that works
NextBatch ==
    \/ T_Loop
    \/ T_Check
    \/ T_Read("frame", 1)
    \/ T_Finish
    \/ Wait_Finished
    \/ Wait_TimedOut
    \/ ClickStart
    \/ StartOpen(GoodDevice)
    \/ ClickStop
    \/ ClickSnapshot
    \/ \E out \in HandlerOutputs : ProcessSnapshot(out)
    \/ \E kind \in {"image", "folder"} : ClickUpload(kind)
    \/ \E chosen \in BOOLEAN : Dialog(chosen)
    \/ \E kind \in FileKinds, out \in HandlerOutputs : ProcessImage(kind, out)
    \/ \E found \in Batches : StartFolderProcessing(found)
    \/ FP_Begin
    \/ \E out \in HandlerOutputs : FP_File(out)
    \/ FP_End
    \/ FP_Finish
    \/ ProcessingFinished
    \/ \E out \in HandlerOutputs : OnFrame(out)

SpecBatch == InitControl /\ [][NextBatch]_vars

(***************************************************************************)
(* CameraThread.start_camera, candidate by candidate: what it opens, reads *)
(* and releases, for every way the four devices can behave.                *)
(***************************************************************************)
MaxTrial == 4           \* reads a device may need before it yields a frame

\* for _ in range(3)
TrialReads == 3

\* a device does not open, raises when it is read, or yields its first valid
\* frame at read number "at"
Behaviours ==
    {[kind |-> "absent", at |-> 0], [kind |-> "raises", at |-> 0]}
        \cup [kind : {"frame"}, at : 1..MaxTrial]

\* the candidate yields a frame however many reads it takes
Accepts_anyFrame(b) == b.kind = "frame"

\* if ret and frame is not None, within the trial reads
Accepts(b) == b.kind = "frame" /\ b.at <= TrialReads

Event(ev, port) == [ev |-> ev, port |-> port]

\* n reads of the device on the port
Reads(port, n) == [k \in 1..n |-> Event("read", port)]

\* the loop over the candidates from the i-th on: the index of the candidate
\* accepted (0: none) and the calls made on the devices
RECURSIVE TryFrom(_, _, _)
TryFrom(dev, i, log) ==
    IF i > Len(Candidates)
    THEN [accepted |-> 0, log |-> Append(log, Event("camera_error", -1))]
    ELSE LET port == Candidates[i]
             b    == dev[port]
         IN  IF b.kind = "absent"
             THEN TryFrom(dev, i + 1, Append(log, Event("open", port)))
             ELSE IF b.kind = "raises"
             THEN TryFrom(dev, i + 1,
                          log \o <<Event("open", port), Event("read", port),
                                   Event("release", port)>>)
             ELSE IF Accepts(b)
             THEN [accepted |-> i,
                   log |-> (Append(log, Event("open", port)) \o Reads(port, b.at))
                               \o <<Event("start", port)>>]
             ELSE TryFrom(dev, i + 1,
                          (Append(log, Event("open", port)) \o Reads(port, TrialReads))
                              \o <<Event("release", port)>>)

\* the device states of StartOpen: what a behaviour comes to
Abstract(dev) ==
    [p \in DOMAIN dev |->
        IF dev[p].kind \in {"absent", "raises"} THEN "absent"
        ELSE IF dev[p].at <= TrialReads THEN "ok" ELSE "silent"]

InitTry ==
    /\ InitLoader /\ ~YOLO
    /\ NoWatcher
    /\ arg \in [dev : [{0, 1, 2, 3} -> Behaviours]]

\* the candidates loop of start_camera, run on the devices of this run
TryCandidates ==
    /\ ret = NoCall
    /\ LET r == TryFrom(arg.dev, 1, <<>>)
       IN  ret' = [op |-> "start_camera", accepted |-> r.accepted, log |-> r.log]
    /\ UNCHANGED <<loaderVars, queueVars, workerVars, callerVars, restVars, ctlVars>>

NextTry == TryCandidates

SpecTry == InitTry /\ [][NextTry]_vars

(***************************************************************************)
(* random_rename_watcher.py: a script of its own, which polls a directory  *)
(* and renames the image files added to it.  Time is counted in half       *)
(* seconds.  One file is followed: the directory's writer adds it under    *)
(* the name "new", writes to it, closes it, or removes it; the watcher     *)
(* renames it to "random".                                                 *)
(***************************************************************************)
MaxTimeout  == 4        \* timeout of wait_for_stable_file
MaxInterval == 2        \* interval of wait_for_stable_file
MaxChecks   == 3        \* stable_checks
MaxJitter   == 1        \* what time.sleep(interval) sleeps beyond interval
MaxSize     == 1        \* size of the file

Sizes == 0..MaxSize

\* min(0.5, poll_interval): the 0.5
HalfSecond == 1

\* parse_args: --poll-interval 0.5, --stability-timeout 1.0, --stable-checks 3
DefaultPollInterval == 1
DefaultStabilityTimeout == 2
DefaultStableChecks == 3

DefaultArgs == [poll_interval |-> DefaultPollInterval,
                stability_timeout |-> DefaultStabilityTimeout,
                stable_checks |-> DefaultStableChecks]

\* the parameters the script is run with
WatchArgs == [poll_interval : 1..MaxInterval,
              stability_timeout : 1..MaxTimeout,
              stable_checks : 1..MaxChecks]

Min(a, b) == IF a < b THEN a ELSE b

\* os.path.getsize(path), path being the file's name when it was found
getsize == IF file.name = "new" THEN file.size ELSE Gone

\* ---- the writer of the directory ---------------------------------------
FileAdded(size, image) ==
    /\ file = NoFile
    /\ "new" \notin seen
    /\ file' = [name |-> "new", size |-> size, image |-> image, writing |-> TRUE]
    /\ UNCHANGED <<appVars, dirVars, args, seen, wd_pc, timeout, interval, stable_checks,
                   wf_pc, clock, last_size, consecutive, stable, checks>>

FileWritten(size) ==
    /\ file.name = "new"
    /\ file.writing
    /\ size # file.size
    /\ file' = [file EXCEPT !.size = size]
    /\ UNCHANGED <<appVars, dirVars, args, seen, wd_pc, timeout, interval, stable_checks,
                   wf_pc, clock, last_size, consecutive, stable, checks>>

FileClosed ==
    /\ file.name = "new"
    /\ file.writing
    /\ file' = [file EXCEPT !.writing = FALSE]
    /\ UNCHANGED <<appVars, dirVars, args, seen, wd_pc, timeout, interval, stable_checks,
                   wf_pc, clock, last_size, consecutive, stable, checks>>

FileRemoved ==
    /\ file.name = "new"
    /\ file' = NoFile
    /\ UNCHANGED <<appVars, dirVars, args, seen, wd_pc, timeout, interval, stable_checks,
                   wf_pc, clock, last_size, consecutive, stable, checks>>

\* ---- wait_for_stable_file ----------------------------------------------
\* start = time.time(); last_size = os.path.getsize(path); consecutive = 0
WS_Start ==
    /\ wf_pc = "start"
    /\ clock' = 0
    /\ checks' = <<>>
    /\ consecutive' = 0
    /\ IF getsize = Gone
       THEN /\ stable' = "False"
            /\ wf_pc' = "done"
            /\ UNCHANGED last_size
       ELSE /\ last_size' = getsize
            /\ wf_pc' = "head"
            /\ stable' = "none"
    /\ UNCHANGED <<appVars, dirVars, file, args, seen, wd_pc, timeout, interval, stable_checks>>

\* while time.time() - start < timeout: ...; return False
WS_Head ==
    /\ wf_pc = "head"
    /\ IF clock < timeout
       THEN wf_pc' = "sleep" /\ UNCHANGED stable
       ELSE wf_pc' = "done" /\ stable' = "False"
    /\ UNCHANGED <<appVars, dirVars, file, args, seen, wd_pc, timeout, interval, stable_checks,
                   clock, last_size, consecutive, checks>>

\* the body of the loop: time.sleep(interval), which sleeps interval or
\* longer, then the size is read again and compared
WS_Check(jitter) ==
    /\ wf_pc = "sleep"
    /\ clock' = clock + interval + jitter
    /\ LET size == getsize
       IN  /\ checks' = Append(checks, [at |-> clock', size |-> size,
                                        same |-> size = last_size])
           /\ IF size = Gone
              THEN /\ stable' = "False"
                   /\ wf_pc' = "done"
                   /\ UNCHANGED <<last_size, consecutive>>
              ELSE /\ last_size' = size
                   /\ IF size = last_size
                      THEN /\ consecutive' = consecutive + 1
                           /\ IF consecutive + 1 >= stable_checks
                              THEN wf_pc' = "done" /\ stable' = "True"
                              ELSE wf_pc' = "head" /\ UNCHANGED stable
                      ELSE /\ consecutive' = 0
                           /\ wf_pc' = "head"
                           /\ UNCHANGED stable
    /\ UNCHANGED <<appVars, dirVars, file, args, seen, wd_pc, timeout, interval, stable_checks>>

\* wait_for_stable_file(path, timeout, interval, stable_checks) called on its
\* own, on a file that is there or not
InitStable ==
    /\ InitLoader /\ ~YOLO /\ arg = NoArg
    /\ NoDir
    /\ file \in {NoFile} \cup
                [name : {"new"}, size : Sizes, image : {TRUE}, writing : {TRUE}]
    /\ args = NoArgs
    /\ seen = {}
    /\ wd_pc = "none"
    /\ timeout \in 0..MaxTimeout
    /\ interval \in 1..MaxInterval
    /\ stable_checks \in 1..MaxChecks
    /\ wf_pc = "start"
    /\ clock = 0
    /\ last_size = Gone
    /\ consecutive = 0
    /\ stable = "none"
    /\ checks = <<>>

NextStable ==
    \/ \E size \in Sizes : FileAdded(size, TRUE)
    \/ \E size \in Sizes : FileWritten(size)
    \/ FileClosed
    \/ FileRemoved
    \/ WS_Start
    \/ WS_Head
    \/ \E jitter \in 0..MaxJitter : WS_Check(jitter)

SpecStable == InitStable /\ [][NextStable]_vars

\* ---- watch_directory ---------------------------------------------------
\* one pass of "for entry in os.scandir(directory)": the file is not there or
\* its name is in seen, or wait_for_stable_file is called on it
WD_Scan ==
    /\ wd_pc = "scan"
    /\ IF file.name = "none" \/ file.name \in seen
       THEN /\ wd_pc' = "sleep"
            /\ UNCHANGED <<timeout, interval, stable_checks, wf_pc>>
       ELSE /\ timeout' = args.stability_timeout
            /\ interval' = Min(HalfSecond, args.poll_interval)
            /\ stable_checks' = args.stable_checks
            /\ wf_pc' = "start"
            /\ wd_pc' = "wait"
    /\ UNCHANGED <<appVars, dirVars, file, args, seen, clock, last_size, consecutive, stable,
                   checks>>

\* wait_for_stable_file has returned: "Skipping (not stable yet)", or
\* is_image_file and rename_file_safely, whose os.rename succeeds or raises
WD_AfterWait(renamed) ==
    /\ wd_pc = "wait"
    /\ wf_pc = "done"
    /\ wf_pc' = "idle"
    /\ wd_pc' = "sleep"
    /\ IF stable = "False"
       THEN UNCHANGED <<file, seen>>
       ELSE IF file.name = "new" /\ file.image /\ renamed
       THEN /\ file' = [file EXCEPT !.name = "random"]
            /\ seen' = seen \cup {"new", "random"}
       ELSE /\ seen' = seen \cup {"new"}
            /\ UNCHANGED file
    /\ UNCHANGED <<appVars, dirVars, args, timeout, interval, stable_checks,
                   clock, last_size, consecutive, stable, checks>>

\* time.sleep(poll_interval)
WD_Sleep ==
    /\ wd_pc = "sleep"
    /\ wd_pc' = "scan"
    /\ UNCHANGED <<appVars, dirVars, file, args, seen, timeout, interval, stable_checks,
                   wf_pc, clock, last_size, consecutive, stable, checks>>

\* watch_directory has seeded seen with the files that were there
InitWatch ==
    /\ InitLoader /\ ~YOLO /\ arg = NoArg
    /\ NoDir
    /\ file = NoFile
    /\ args \in WatchArgs
    /\ seen = {}
    /\ wd_pc = "scan"
    /\ NoWait

\* a step of the watcher's only thread
Watcher ==
    \/ WD_Scan
    \/ \E renamed \in BOOLEAN : WD_AfterWait(renamed)
    \/ WD_Sleep
    \/ WS_Start
    \/ WS_Head
    \/ \E jitter \in 0..MaxJitter : WS_Check(jitter)

NextWatch ==
    \/ \E size \in Sizes, image \in BOOLEAN : FileAdded(size, image)
    \/ \E size \in Sizes : FileWritten(size)
    \/ FileClosed
    \/ FileRemoved
    \/ WD_Scan
    \/ \E renamed \in BOOLEAN : WD_AfterWait(renamed)
    \/ WD_Sleep
    \/ WS_Start
    \/ WS_Head
    \/ \E jitter \in 0..MaxJitter : WS_Check(jitter)

\* the script keeps running: its thread takes its next step
SpecWatch == InitWatch /\ [][NextWatch]_vars /\ WF_vars(Watcher)

(***************************************************************************)
(* watch_directory name by name: the names it marks seen and the files it  *)
(* renames.  Files are told apart by an id, which a file keeps when it is  *)
(* renamed.  Whether wait_for_stable_file answers True for a file depends  *)
(* on the file's writer; here either answer is taken, True only with       *)
(* parameters under which the call can answer True at all.                 *)
(***************************************************************************)
MaxAdded    == 2        \* files added to the directory while the script runs
MaxAttempts == 3        \* calls of rename_file_safely that are followed

\* the id of the file that is in the directory when the script starts
OldId == 1

\* the names in use and the files behind them
Present(d) == {n \in Names : d[n] # NoEntry}
Ids(d) == {d[n].id : n \in Present(d)}

\* name.startswith(".") or name.startswith("~")
Hidden(n) == n = ".tmp"

\* a script that starts with seen empty
Seeded_none(d) == {}

\* seen after "for entry in os.scandir(directory): seen.add(entry.name)"
Seeded(d) == Present(d)

\* a loop that marks the original name only
MarkSeen_originalOnly(name, new_name, outcome) == {name}

\* seen.add(name); if new_name: seen.add(new_name), rename_file_safely having
\* returned None when os.rename raised
MarkSeen(name, new_name, outcome) ==
    {name} \cup (IF outcome = "failed" THEN {} ELSE {new_name})

\* wait_for_stable_file can answer True: the last of its stable_checks checks
\* follows a loop test that found less than timeout elapsed
CanBeStable(a) ==
    (a.stable_checks - 1) * Min(HalfSecond, a.poll_interval) < a.stability_timeout

\* the defaults, and the defaults with a longer --stability-timeout
PatientArgs == [DefaultArgs EXCEPT !.stability_timeout = MaxTimeout]

\* ---- the writers of the directory --------------------------------------
DirAdded(name, image) ==
    /\ wd_pc \in {"scan", "entry", "sleep"}
    /\ dir[name] = NoEntry
    /\ Cardinality(Ids(dir) \ {OldId}) < MaxAdded
    /\ dir' = [dir EXCEPT ![name] =
                    [id |-> OldId + 1 + Cardinality(Ids(dir) \ {OldId}),
                     image |-> image]]
    /\ UNCHANGED <<appVars, file, args, seen, wd_pc, timeout, interval, stable_checks,
                   wf_pc, clock, last_size, consecutive, stable, checks,
                   dry_run, todo, attempts>>

\* ---- watch_directory ---------------------------------------------------
\* for entry in os.scandir(directory)
WDir_List ==
    /\ wd_pc = "scan"
    /\ todo' = Present(dir)
    /\ wd_pc' = "entry"
    /\ UNCHANGED <<appVars, file, args, seen, timeout, interval, stable_checks,
                   wf_pc, clock, last_size, consecutive, stable, checks,
                   dir, dry_run, attempts>>

\* the body of the loop for one entry; rename_file_safely generates a name
\* no file has, and its os.rename succeeds or raises
WDir_Entry(name, is_stable, new_name, raises) ==
    /\ wd_pc = "entry"
    /\ name \in todo
    /\ todo' = todo \ {name}
    /\ IF name \in seen
       THEN UNCHANGED <<seen, dir, attempts>>
       ELSE IF Hidden(name)
       THEN seen' = seen \cup {name} /\ UNCHANGED <<dir, attempts>>
       ELSE IF dir[name] = NoEntry \/ ~is_stable
       THEN UNCHANGED <<seen, dir, attempts>>
       ELSE IF ~dir[name].image
       THEN seen' = seen \cup {name} /\ UNCHANGED <<dir, attempts>>
       ELSE LET outcome == IF dry_run THEN "dry"
                           ELSE IF raises THEN "failed" ELSE "renamed"
            IN  /\ Len(attempts) < MaxAttempts
                /\ dir[new_name] = NoEntry
                /\ attempts' = Append(attempts, [id |-> dir[name].id, from |-> name,
                                                 to |-> new_name, outcome |-> outcome])
                /\ dir' = IF outcome = "renamed"
                          THEN [dir EXCEPT ![new_name] = dir[name], ![name] = NoEntry]
                          ELSE dir
                /\ seen' = seen \cup MarkSeen(name, new_name, outcome)
    /\ UNCHANGED <<appVars, file, args, wd_pc, timeout, interval, stable_checks,
                   wf_pc, clock, last_size, consecutive, stable, checks, dry_run>>

\* the pass is over
WDir_Done ==
    /\ wd_pc = "entry"
    /\ todo = {}
    /\ wd_pc' = "sleep"
    /\ UNCHANGED <<appVars, file, args, seen, timeout, interval, stable_checks,
                   wf_pc, clock, last_size, consecutive, stable, checks, dirVars>>

\* watch_directory(directory, ..., dry_run) up to its loop: seen is seeded
\* with the names of the files that are there
InitSeen ==
    /\ InitLoader /\ ~YOLO /\ arg = NoArg
    /\ file = NoFile
    /\ NoWait
    /\ args \in {DefaultArgs, PatientArgs}
    /\ dry_run \in BOOLEAN
    /\ \E old \in {NoEntry} \cup [id : {OldId}, image : BOOLEAN] :
            dir = [n \in Names |-> IF n = "old" THEN old ELSE NoEntry]
    /\ seen = Seeded(dir)
    /\ wd_pc = "scan"
    /\ todo = {}
    /\ attempts = <<>>

NextSeen ==
    \/ \E name \in AddedNames, image \in BOOLEAN : DirAdded(name, image)
    \/ WDir_List
    \/ \E name \in Names, new_name \in RandomNames, raises \in BOOLEAN,
          is_stable \in (IF CanBeStable(args) THEN BOOLEAN ELSE {FALSE}) :
            WDir_Entry(name, is_stable, new_name, raises)
    \/ WDir_Done
    \/ WD_Sleep

SpecSeen == InitSeen /\ [][NextSeen]_vars

(***************************************************************************)
(* rename.py: rename_images(folder_path, start_number), a script of its    *)
(* own.  A file name is a stem and an extension; the stems are "B", which  *)
(* sorts before every "Image_<k>", the "Image_<k>" themselves, and "a",    *)
(* which sorts after them.  A file's content is told by the name it had    *)
(* before the run.                                                         *)
(***************************************************************************)
MaxNumber == 2          \* the k of the files already named Image_<k>
MaxStart  == 2          \* start_number

Extensions == {".jpg", ".png"}

\* the image files a folder can hold
ImageNames ==
    [stem : {"B", "a"}, num : {0}, ext : Extensions]
        \cup [stem : {"Image_"}, num : 1..MaxNumber, ext : Extensions]

\* os.rename onto an existing name replaces that file (POSIX) or raises
\* FileExistsError (Windows)
Platforms == {"posix", "windows"}

\* the order of files.sort(): the names compared as strings (k < 10)
StemRank(stem) == CASE stem = "B" -> 0 [] stem = "Image_" -> 1 [] stem = "a" -> 2
ExtRank(ext) == IF ext = ".jpg" THEN 0 ELSE 1
Key(name) == StemRank(name.stem) * 100 + name.num * 10 + ExtRank(name.ext)

RECURSIVE Sorted(_)
Sorted(names) ==
    IF names = {} THEN <<>>
    ELSE LET first == CHOOSE n \in names : \A m \in names : Key(n) <= Key(m)
         IN  <<first>> \o Sorted(names \ {first})

\* f"Image_{counter}{ext}"
NewName(counter, ext) == [stem |-> "Image_", num |-> counter, ext |-> ext]

\* the files of the folder by name
Entry(folder, name) == {e \in folder : e.name = name}

\* the loop of rename_images from the entry files[1] on: os.rename(old_path,
\* new_path) for each file in turn, the first exception ending the run
RECURSIVE RenameFrom(_, _, _, _)
RenameFrom(folder, files, counter, platform) ==
    IF files = <<>> THEN [folder |-> folder, raised |-> FALSE]
    ELSE LET filename == Head(files)
             new_name == NewName(counter, filename.ext)
             moved    == {[name |-> new_name, content |-> e.content] :
                            e \in Entry(folder, filename)}
         IN  IF new_name = filename
             THEN RenameFrom(folder, Tail(files), counter + 1, platform)
             ELSE IF Entry(folder, new_name) # {} /\ platform = "windows"
             THEN [folder |-> folder, raised |-> TRUE]
             ELSE RenameFrom((folder \ (Entry(folder, filename)
                                            \cup Entry(folder, new_name)))
                                 \cup moved,
                             Tail(files), counter + 1, platform)

\* the folder before the run: every file holds its own content
Folder(names) == {[name |-> n, content |-> n] : n \in names}

InitRename ==
    /\ InitLoader /\ ~YOLO
    /\ NoWatcher
    /\ arg \in [folder : SUBSET ImageNames, start_number : 1..MaxStart,
                platform : Platforms]

\* rename_images(folder_path, start_number)
RenameImages ==
    /\ ret = NoCall
    /\ LET r == RenameFrom(Folder(arg.folder), Sorted(arg.folder),
                           arg.start_number, arg.platform)
       IN  ret' = [op |-> "rename_images", folder |-> r.folder, raised |-> r.raised]
    /\ UNCHANGED <<loaderVars, queueVars, workerVars, callerVars, restVars, ctlVars>>

NextRename == RenameImages

SpecRename == InitRename /\ [][NextRename]_vars

(***************************************************************************)
(* Claims on the synchronous path (checked under SpecSync)                 *)
(***************************************************************************)
RanModel == ret.op = "predict_single" /\ ~ret.mock /\ ret.model = "loaded"

\* C1: whatever candidates c1..cn the model returns, predict_single returns
\* the detection of a candidate of maximal confidence, the first such
\* candidate in iteration order, and draws that one box; with no candidates
\* it returns no detection and the image it was given.
C1_FirstMaxReturned ==
    RanModel =>
        IF ret.out.kind \in {"empty", "noboxes"}
        THEN ret.det = None /\ ret.img = Original(ret.image)
        ELSE IF ret.out.kind = "boxes"
        THEN LET b == ret.out.boxes
             IN  IF b = <<>>
                 THEN ret.det = None /\ ret.img = Original(ret.image)
                 ELSE \E i \in 1..Len(b) :
                        /\ \A j \in 1..Len(b) : b[j].conf <= b[i].conf
                        /\ \A j \in 1..(i - 1) : b[j].conf < b[i].conf
                        /\ ret.det.confidence = b[i].conf
                        /\ ret.det.class_id = b[i].cls
                        /\ ret.det.class_name = ClassName(ret.names, b[i].cls)
                        /\ ret.img = [src |-> ret.image, copy |-> 1, drawn |-> <<i>>]
        ELSE TRUE

\* three candidates, the first and the last share the maximum and differ in
\* class: the first one came back
C1_Witness ==
    /\ RanModel
    /\ ret.out.kind = "boxes"
    /\ Len(ret.out.boxes) = 3
    /\ ret.out.boxes[1].conf = 81 /\ ret.out.boxes[2].conf = 40
    /\ ret.out.boxes[3].conf = 81
    /\ ret.out.boxes[1].cls = 5 /\ ret.out.boxes[3].cls = 7
    /\ ret.det.class_name = "Mug"

Placeholders ==
    {d \in [class_name : {"Object", "Mock"}, confidence : {95}, class_id : {0}] : TRUE}

\* C2 (as claimed): once load_model has put the loader in placeholder mode,
\* every predict_single call returns a placeholder detection ("Object" or
\* "Mock", confidence 0.95), never "no detection".
C2_SyncPlaceholderAfterLoadFailure ==
    (ret.op = "predict_single" /\ ret.mock /\ ret.names = ObjectNames)
        => ret.det \in Placeholders

\* C3: load_model never raises and always reports success; a failure of the
\* constructor or of the warm-up call leaves use_mock set; once use_mock is
\* set no step clears it, and no later load_model touches self.model.
C3_LoadNeverRaisesMockPermanent ==
    [][ /\ use_mock => (use_mock' /\ model' = model)
        /\ ret'.op = "load_model" =>
              /\ ~ret'.raised
              /\ ret'.value = TRUE
              /\ ret'.outcome \in {"ctor_raises", "warmup_raises"} => use_mock' ]_vars

\* the import succeeded, an earlier load failed, and a later load_model that
\* would have succeeded was answered from mock mode
C3_Witness ==
    /\ YOLO /\ use_mock
    /\ ret.op = "load_model" /\ ret.mock_before /\ ret.outcome = "names"
    /\ ret.value = TRUE

(***************************************************************************)
(* Claims on the asynchronous path (checked under SpecAsync)               *)
(***************************************************************************)
AsyncReturned == ret.op = "predict_async"

\* C4: the submission slot never holds more than one frame, and a submit
\* made while it holds an unconsumed frame leaves that frame in place.
C4_SubmitDroppedWhenOccupied ==
    /\ [](Len(detection_queue) <= 1)
    /\ [][(pa_pc = "submit" /\ pa_pc' = "get" /\ detection_queue # <<>>)
             => (detection_queue' = detection_queue /\ pa_dropped')]_vars

\* a second submit, of another frame, has just been dropped
C4_Witness ==
    /\ pa_pc = "get" /\ pa_dropped
    /\ detection_queue # <<>> /\ Head(detection_queue) # pa_frame

C6_PredictAsyncNeverWaits ==
    /\ pa_pc = "idle" => \A f \in Images : ENABLED PA_Begin(f)
    /\ pa_pc # "idle" => ENABLED PA_Step

\* the worker is in the middle of an inference, the result slot is empty,
\* and the call has reached its last step
C6_Witness ==
    /\ pa_pc = "last" /\ w_pc = "infer" /\ result_queue = <<>>
    /\ detection_queue = <<pa_frame>>

\* C7 (as claimed): with the loop running and an inference already completed
\* when the call began, predict_async returns the result of an inference at
\* least as recent as the latest one completed by then.
C7_ReturnsMostRecentCompleted ==
    (AsyncReturned /\ ret.running /\ ret.begin_latest >= 1)
        => ret.res.img.copy >= ret.begin_latest

\* frames accepted by submit whose inference has not finished
InFlight == Len(detection_queue) + (IF w_pc = "infer" THEN 1 ELSE 0)

\* C8 (as claimed): at most one frame is in flight: none is accepted while
\* the worker is still inferring on the previous one.
C8_AtMostOneInFlight == InFlight <= 1

\* C8 (amended): a frame is accepted only when the slot is empty, that is
\* after the worker has taken the previous one out of it; the worker may
\* still be inferring on that one, so up to two frames are in flight.
C8_AcceptedOnlyAfterTaken ==
    /\ [](InFlight <= 2)
    /\ [][Len(detection_queue') > Len(detection_queue)
             => (detection_queue = <<>> /\ detection_queue' = <<pa_frame>>)]_vars

\* a frame was accepted while the worker is inferring on the previous one
C8_Witness ==
    /\ InFlight = 2 /\ pa_pc = "get" /\ ~pa_dropped

\* C9: the result slot never holds more than one result, the worker adds to
\* it only when it is empty (so a result in it is only ever removed, never
\* replaced), and the worker never has to wait at its put.
C9_PublishOnlyIntoEmptySlot ==
    /\ [](Len(result_queue) <= 1)
    /\ [](w_pc = "put" => ENABLED W_Put)
    /\ [][result_queue' # result_queue
             => \/ (result_queue = <<>> /\ w_pc = "put" /\ result_queue' = <<w_result>>)
                \/ (result_queue # <<>> /\ result_queue' = <<>> /\ pa_pc = "get")]_vars

\* the worker completed a second inference while the first result was
\* still in the slot, and skipped the publish
C9_Witness ==
    /\ result_queue # <<>> /\ completed = 2 /\ w_pc = "loop"
    /\ last_result # Head(result_queue)

\* C29: when the async loop is not running (never started, or after
\* stop_processing), predict_async(frame) returns at once the input frame
\* itself with no detection, and the call leaves the submission slot, the
\* result slot and the last known result as they were, whatever they hold.
C29_NotRunningReturnsInput ==
    /\ [][(pa_pc = "idle" /\ ~is_processing
           /\ ret'.op = "predict_async" /\ ret' # ret) =>
            /\ ret'.res = [img |-> Original(ret'.frame), det |-> None]
            /\ ~ret'.running
            /\ pa_pc' = "idle"
            /\ UNCHANGED <<detection_queue, result_queue, last_result>>]_vars
    /\ [](~is_processing => pa_pc = "idle")
    /\ []((ret.op = "predict_async" /\ ~ret.running) =>
            ret.res = [img |-> Original(ret.frame), det |-> None])

\* a call made after stop_processing has returned its own frame while a
\* result was waiting in the result slot and a last result was known
C29_Witness ==
    /\ ret.op = "predict_async" /\ ~ret.running
    /\ ~is_processing /\ w_pc # "none"
    /\ result_queue # <<>>
    /\ last_result # NoResult

\* the call returned an inference result (from the result slot or the last
\* known result), as opposed to the caller's own frame
ReturnedInference(r) == r.op = "predict_async" /\ r.source \in {"queue", "last"}

\* C30 (as claimed): the results returned by successive predict_async calls
\* never go backwards: the inference returned by a call was completed no
\* earlier than the inference returned by the call before it.
C30_ResultsNeverGoBackwards ==
    [][(ReturnedInference(ret) /\ ReturnedInference(ret') /\ ret' # ret) =>
          ret'.res.img.copy >= ret.res.img.copy]_vars

(***************************************************************************)
(* Claims on the submission slot (checked under SpecSlot)                  *)
(***************************************************************************)
\* the inferences the worker can still complete within MaxInfer, counting
\* the one under way
WithinMaxInfer == completed + (IF w_frame # 0 THEN 1 ELSE 0) < MaxInfer

\* C31: while the async loop is running, a frame accepted into the
\* submission slot is eventually taken out of it by the worker, whether the
\* inference on an earlier frame raised or the result slot is still full;
\* the worker never waits on the result slot, and after a raise, a skipped
\* publish or a publish it is back at the head of its loop.
C31_SubmittedFrameEventuallyTaken ==
    /\ []((detection_queue # <<>> /\ is_processing /\ WithinMaxInfer) =>
            <>(detection_queue = <<>> \/ ~is_processing))
    /\ [](w_pc = "put" => result_queue = <<>>)
    /\ [][(w_pc \in {"infer", "check", "put"} /\ w_pc' # w_pc) =>
            w_pc' \in {"check", "put", "loop"}]_vars
    /\ [][(detection_queue # <<>> /\ detection_queue' = <<>>) =>
            (w_pc = "get" /\ w_pc' = "infer" /\ w_frame' = Head(detection_queue))]_vars

\* the worker has taken a frame out of the submission slot while the result
\* slot still holds the result of an earlier frame
C31_Witness ==
    /\ is_processing
    /\ w_pc = "infer" /\ w_frame # 0
    /\ detection_queue = <<>>
    /\ result_queue # <<>>

(***************************************************************************)
(* Claims on the frame source and the control surface (checked under Spec) *)
(***************************************************************************)
CaptureLoopAlive == t_pc \in {"loop", "check", "read"}

\* C10 (as claimed): once stop has run, a start command that is let through
\* to the frame source and finds a capture device ends with the pipeline
\* running: start_camera answers True, the device is open, the run flag is
\* set and the capture loop is alive.
C10_StartAfterStopSucceeds ==
    [][(ui_pc = "start_open" /\ ui_pc' = "idle" /\ was_stopped /\ ret'.device)
          => /\ ret'.value = "True"
             /\ is_camera_on' /\ is_running' /\ camera' # NoCamera
             /\ CaptureLoopAlive']_vars

Idle == ~is_camera_on /\ ~processing_files

\* C15: the start command acts only in Idle.  While files are processed it is
\* refused and changes nothing, and while the camera is on its button is
\* disabled.  Issued in Idle it calls the frame source's start: when that
\* answers True the control state is Running with stop and snapshot enabled;
\* when it answers False the error is logged and the control state is Idle
\* with stop and snapshot disabled and start enabled.
C15_StartOnlyFromIdle ==
    /\ []((ui_pc = "idle" /\ is_camera_on) => ~start_btn)
    /\ [][(ui_pc = "idle" /\ ui_pc' = "idle" /\ ret'.op = "start_camera" /\ ret' # ret) =>
            (processing_files /\ ret'.value = "refused"
             /\ UNCHANGED <<camVars, winVars, btnVars>>)]_vars
    /\ [][(ui_pc = "idle" /\ ui_cont' = "start") => (Idle /\ ui_pc' = "wait")]_vars
    /\ [][(ui_pc = "start_open" /\ ui_pc' = "idle") =>
            /\ ret'.op = "start_camera" /\ ret'.value = "True"
            /\ is_camera_on' /\ ~processing_files'
            /\ stop_btn' /\ snapshot_btn' /\ ~start_btn']_vars
    /\ [][(ui_pc = "start_open" /\ ui_pc' \notin {"idle", "start_open"}) =>
            (ui_pc' = "wait" /\ ui_cont' = "start_fail")]_vars
    /\ [][(ui_cont = "start_fail" /\ ui_pc' = "idle") =>
            /\ ret'.op = "start_camera" /\ ret'.value = "False"
            /\ ret'.error = "No camera found on ports 0-3"
            /\ Idle'
            /\ ~stop_btn' /\ ~snapshot_btn' /\ start_btn']_vars

\* a start issued in Idle has failed after the camera had already been on
C15_Witness ==
    /\ ui_pc = "idle"
    /\ ret.op = "start_camera" /\ ret.value = "False"
    /\ last_camera_frame # 0

\* the device states in which no candidate yields a frame
FailingDevices == {dev \in DeviceStates : \A p \in DOMAIN dev : dev[p] # "ok"}

\* none of them has a candidate that is accepted
NoFailingDeviceAccepted == \A dev \in FailingDevices : FirstOk(dev) = 0

\* C16: when no candidate device yields a frame in its trial reads, no
\* candidate is accepted: the frame source's start starts no capture loop,
\* leaves the run flag false and no device open, and emits "No camera found"
\* once; the control surface handles that one error (stopping the camera
\* again) and start_camera then answers False with the frame source idle.
C16_NoDeviceLeavesSourceIdle ==
    /\ [](NoFailingDeviceAccepted)
    /\ [][(ui_pc = "start_open" /\ ui_pc' = "wait") =>
            /\ ui_cont' = "start_fail"
            /\ ~is_running' /\ camera' = NoCamera
            /\ t_pc' = t_pc]_vars
    /\ [](ui_cont = "start_fail" => (~is_running /\ camera = NoCamera /\ ui_pc = "wait"))
    /\ [][(ui_cont = "start_fail" /\ ui_cont' # "start_fail") =>
            /\ ui_pc' = "idle"
            /\ ret' = [op |-> "start_camera", value |-> "False", device |-> FALSE,
                       error |-> "No camera found on ports 0-3"]
            /\ ~is_running' /\ camera' = NoCamera
            /\ t_pc' = t_pc]_vars

\* a failed start has returned with no capture thread left
C16_Witness ==
    /\ ui_pc = "idle"
    /\ ret.op = "start_camera" /\ ret.value = "False"
    /\ ~is_running /\ camera = NoCamera /\ t_pc = "none"

\* nothing is queued for the UI thread and no handler is under way
Quiescent == ui_pc = "idle" /\ frame_events = <<>> /\ timer = "none"

\* C17 (as claimed): once the capture loop has aborted on exceeding the
\* consecutive-failure threshold and nothing is left for the control surface
\* to handle, the pipeline is Idle: the run flag is cleared and the control
\* state is not Running.
C17_AbortEndsIdle ==
    (consecutive_failures > max_failures /\ t_pc = "none" /\ Quiescent)
        => (~is_running /\ ~is_camera_on)

\* C18: a stop command clears the run flag and releases the device at once,
\* its wait for the capture thread always ends (whether or not the thread has
\* finished), the capture thread is not killed, and the command leaves the
\* control state Idle with stop and snapshot disabled and start enabled.
C18_StopAlwaysCompletes ==
    /\ [][(ui_pc = "idle" /\ ui_cont' = "stop") =>
            /\ stop_btn /\ ui_pc' = "wait"
            /\ ~is_camera_on' /\ ~is_running' /\ camera' = NoCamera
            /\ t_pc' = t_pc]_vars
    /\ [](ui_pc = "wait" => (ENABLED Wait_Finished \/ ENABLED Wait_TimedOut))
    /\ [](ui_cont = "stop" => (ui_pc = "wait" /\ ~is_running /\ camera = NoCamera))
    /\ [][(ui_cont = "stop" /\ ui_cont' # "stop") =>
            /\ ui_pc' = "idle" /\ ret' = [op |-> "stop_camera"]
            /\ Idle'
            /\ ~stop_btn' /\ ~snapshot_btn' /\ start_btn'
            /\ ~is_running' /\ camera' = NoCamera
            /\ t_pc' = t_pc]_vars

\* a stop command has returned while the capture thread is still inside run()
C18_Witness ==
    /\ ui_pc = "idle"
    /\ ret = [op |-> "stop_camera"]
    /\ t_pc \in {"check", "read"}
    /\ Idle /\ start_btn /\ ~stop_btn /\ ~snapshot_btn

Running == is_camera_on /\ ~processing_files

\* the snapshot command is issued with the control state Running
SnapshotInRunning == ui_pc = "idle" /\ Running /\ snapshot_btn /\ ClickSnapshot

\* C20 (as claimed): a snapshot command issued in Running takes the most
\* recent frame and stops the frame source.
C20_SnapshotInRunningStopsSource ==
    [][SnapshotInRunning =>
          /\ snapshot_frame' = last_camera_frame /\ snapshot_frame' # 0
          /\ ui_cont' = "snapshot"
          /\ ~is_running' /\ ~is_camera_on']_vars

\* C20 (amended): a snapshot command issued in Running after the control
\* surface has recorded a frame takes the last frame recorded, enters the
\* loading state and stops the frame source; predict runs only afterwards, on
\* that frame, and whatever it answers (detection, none, error) the pipeline
\* ends Idle with the camera off.  Issued in Running before any frame was
\* recorded the command changes nothing, and outside Running its button is
\* disabled.
C20_SnapshotWithFrameEndsIdle ==
    /\ [][(SnapshotInRunning /\ last_camera_frame # 0) =>
            /\ snapshot_frame' = last_camera_frame
            /\ ui_pc' = "wait" /\ ui_cont' = "snapshot"
            /\ ~is_running' /\ camera' = NoCamera
            /\ ~is_camera_on' /\ processing_files']_vars
    /\ [][(SnapshotInRunning /\ last_camera_frame = 0) =>
            UNCHANGED <<camVars, winVars, btnVars, uiVars>>]_vars
    /\ [][(ui_pc = "idle" /\ Running /\ frame_events # <<>>
           /\ frame_events' = Tail(frame_events)) =>
            last_camera_frame' = Head(frame_events)]_vars
    /\ []((ui_cont = "snapshot" \/ timer = "snapshot") =>
            /\ ~is_running /\ camera = NoCamera
            /\ ~is_camera_on /\ processing_files
            /\ snapshot_frame # 0)
    /\ [][(timer = "snapshot" /\ timer' # "snapshot") =>
            /\ ret'.op = "process_snapshot"
            /\ ui_pc' = "idle" /\ Idle'
            /\ ~is_running' /\ camera' = NoCamera]_vars
    /\ []((ui_pc = "idle" /\ ~Running) => ~snapshot_btn)

\* a snapshot on which predict found nothing has left the pipeline Idle
C20_Witness ==
    /\ ret.op = "process_snapshot" /\ ret.det = None
    /\ ui_pc = "idle" /\ Idle /\ ~is_running /\ timer = "none"

(***************************************************************************)
(* Claims on cancellation (checked under SpecCancel)                       *)
(***************************************************************************)
\* C19: cancellation is cooperative and effective.  Each loop tests its flag
\* at the head of every iteration and leaves when it finds it cleared; the
\* body has no inner loop and no unbounded wait, so from any point of an
\* iteration the head is reached again without passing it; hence once
\* is_running (is_processing) is cleared and not set again, the capture loop
\* (the worker loop) terminates after at most the iteration under way.
C19_CancellationEffective ==
    /\ [][(t_pc = "loop" /\ ~is_running /\ t_pc' # t_pc) => t_pc' = "exit"]_vars
    /\ [][(t_pc = "check" /\ t_pc' # t_pc) => t_pc' \in {"read", "loop", "exit"}]_vars
    /\ [][(t_pc = "read" /\ t_pc' # t_pc) => t_pc' \in {"loop", "exit"}]_vars
    /\ [][(w_pc = "loop" /\ ~is_processing /\ w_pc' # w_pc) => w_pc' = "done"]_vars
    /\ [][(w_pc = "get" /\ w_pc' # w_pc) => w_pc' = "loop"]_vars
    /\ [](~is_running => <>(is_running \/ t_pc \in {"exit", "none"}))
    /\ [](~is_processing => <>(is_processing \/ w_pc = "done"))

\* the window was closed while the camera was on, and both loops have ended
C19_Witness ==
    /\ ui_pc = "closed"
    /\ last_camera_frame # 0
    /\ ~is_running /\ t_pc = "none"
    /\ ~is_processing /\ w_pc = "done"

\* C26: a stop issued while the capture thread is between its camera-open
\* check and its read, the device released and set to None underneath it,
\* lets no exception escape the capture loop and does not leave the loop
\* running: the read on the missing device counts as one more failure and
\* delivers no frame, the thread goes back to the head of its loop (or leaves
\* past max_failures), and unless the camera is started again the loop exits.
C26_StopMidIterationAbsorbed ==
    /\ [](t_pc \in {"none", "loop", "check", "read", "exit"})
    /\ [][(t_pc = "read" /\ camera = NoCamera /\ t_pc' # t_pc) =>
            /\ consecutive_failures' = consecutive_failures + 1
            /\ t_pc' = IF consecutive_failures' > max_failures THEN "exit" ELSE "loop"
            /\ frame_events' = frame_events]_vars
    /\ []((t_pc = "read" /\ camera = NoCamera /\ ~is_running) =>
            <>(is_running \/ t_pc \in {"exit", "none"}))

\* the stop command is waiting for the capture thread, which had passed its
\* camera-open check and now finds the device gone
C26_Witness ==
    /\ ui_pc = "wait" /\ ui_cont = "stop"
    /\ t_pc = "read"
    /\ camera = NoCamera /\ ~is_running

(***************************************************************************)
(* Claims on the capture loop's failure count (checked under Spec)         *)
(***************************************************************************)
\* the capture thread takes a step of its loop body
BodyStep == t_pc \in {"check", "read"} /\ t_pc' # t_pc

\* C27: the capture loop aborts on failures if and only if more than
\* max_failures (10) failures occur consecutively.  In the loop body a passed
\* camera-open check leaves the counter alone, a successful read resets it to
\* zero and delivers its frame, and every failure adds one and aborts exactly
\* when the counter then exceeds max_failures; nothing else but a start
\* (which resets it) changes the counter, the loop is left only by an abort
\* or at its head with the run flag cleared, and a loop that is alive has
\* counted at most max_failures failures in a row.
C27_AbortOnlyPastMaxFailures ==
    /\ [](CaptureLoopAlive => consecutive_failures <= max_failures)
    /\ [][BodyStep =>
            \/ /\ t_pc = "check" /\ t_pc' = "read"
               /\ consecutive_failures' = consecutive_failures
            \/ /\ t_pc = "read" /\ t_pc' = "loop"
               /\ consecutive_failures' = 0
               /\ Len(frame_events') = Len(frame_events) + 1
            \/ /\ consecutive_failures' = consecutive_failures + 1
               /\ frame_events' = frame_events
               /\ t_pc' = "exit" <=> consecutive_failures' > max_failures
               /\ t_pc' = "loop" <=> consecutive_failures' <= max_failures]_vars
    /\ [][(t_pc # "exit" /\ t_pc' = "exit") =>
            \/ t_pc = "loop" /\ ~is_running
            \/ BodyStep /\ consecutive_failures' = max_failures + 1]_vars
    /\ [][consecutive_failures' # consecutive_failures =>
            \/ BodyStep
            \/ ui_pc = "start_open" /\ consecutive_failures' = 0]_vars

\* after a frame had been delivered, an eleventh failure in a row has made
\* the loop abort with its run flag still set
C27_Witness ==
    /\ t_pc = "exit"
    /\ consecutive_failures = max_failures + 1
    /\ is_running
    /\ last_camera_frame # 0

(***************************************************************************)
(* Claims on the candidates of start_camera (checked under SpecTry)        *)
(***************************************************************************)
\* the ports of the events of one kind, in the order of the log
RECURSIVE PortsOf(_, _)
PortsOf(log, ev) ==
    IF log = <<>> THEN <<>>
    ELSE IF Head(log).ev = ev
         THEN <<Head(log).port>> \o PortsOf(Tail(log), ev)
         ELSE PortsOf(Tail(log), ev)

\* how many reads of the port the log holds
ReadsOf(log, port) ==
    Cardinality({k \in 1..Len(log) : log[k] = Event("read", port)})

\* C28: start_camera tries the candidates in the fixed order 0, 1, 2, 3 (the
\* requested port first) and accepts the first one that opens and yields a
\* valid frame within at most 3 trial reads: the candidates before it were
\* all opened, in order, none of them yielding a frame within 3 reads, the
\* candidates after it are never opened, no candidate is read more than 3
\* times, and a candidate that was read without being accepted is released
\* before the next one is opened.  With no such candidate all four are tried
\* and the error is emitted.
C28_FirstWorkingCandidateAccepted ==
    ret.op = "start_camera" =>
        LET dev    == arg.dev
            acc    == ret.accepted
            log    == ret.log
            last   == IF acc = 0 THEN Len(Candidates) ELSE acc
            opened == PortsOf(log, "open")
        IN  /\ acc \in 0..Len(Candidates)
            /\ opened = SubSeq(Candidates, 1, last)
            /\ \A i \in 1..(last - 1) : ~(dev[Candidates[i]].kind = "frame"
                                          /\ dev[Candidates[i]].at <= 3)
            /\ acc # 0 =>
                  /\ dev[Candidates[acc]].kind = "frame"
                  /\ dev[Candidates[acc]].at <= 3
                  /\ ReadsOf(log, Candidates[acc]) = dev[Candidates[acc]].at
                  /\ log[Len(log)] = Event("start", Candidates[acc])
                  /\ PortsOf(log, "camera_error") = <<>>
            /\ acc = 0 =>
                  /\ ~(dev[Candidates[last]].kind = "frame"
                       /\ dev[Candidates[last]].at <= 3)
                  /\ log[Len(log)].ev = "camera_error"
                  /\ PortsOf(log, "start") = <<>>
            /\ \A p \in 0..3 : ReadsOf(log, p) <= 3
            /\ \A k \in 1..Len(log) :
                  /\ (log[k].ev = "read" /\ k < Len(log)) =>
                        log[k + 1] \in {Event("read", log[k].port),
                                        Event("release", log[k].port),
                                        Event("start", log[k].port)}
                  /\ (log[k].ev = "read" /\ log[k + 1].ev = "release"
                      /\ dev[log[k].port].kind = "frame") =>
                        (k > 3 /\ \A j \in (k - 2)..k : log[j] = log[k])
            /\ FirstOk(Abstract(dev)) = acc

\* port 0 did not open, port 1 failed its three trial reads and was
\* released, port 2 was accepted at its third read; port 3 was never opened
C28_Witness ==
    /\ ret.op = "start_camera"
    /\ ret.accepted = 3
    /\ arg.dev[0].kind = "absent"
    /\ arg.dev[1] = [kind |-> "frame", at |-> 4]
    /\ arg.dev[2] = [kind |-> "frame", at |-> 3]
    /\ arg.dev[3] = [kind |-> "frame", at |-> 1]

(***************************************************************************)
(* Claims on the devices and loops of the frame source (checked under Spec)*)
(***************************************************************************)
\* the captures that are open after the first k calls of the log: those
\* opened on a device that does open, less those released
OpenAfter(dev, log, k) ==
    Cardinality({j \in 1..k : log[j].ev = "open" /\ dev[log[j].port].kind # "absent"})
        - Cardinality({j \in 1..k : log[j].ev = "release"})

\* whatever the four devices do, the candidates loop never has two captures
\* open, and it ends with one open exactly when it accepted a candidate
OneOpenWhileTrying ==
    \A dev \in [{0, 1, 2, 3} -> Behaviours] :
        LET r == TryFrom(dev, 1, <<>>)
        IN  /\ \A k \in 0..Len(r.log) : OpenAfter(dev, r.log, k) \in {0, 1}
            /\ OpenAfter(dev, r.log, Len(r.log)) = IF r.accepted = 0 THEN 0 ELSE 1

\* C32: for every sequence of start and stop commands the frame source holds
\* at most one open capture device and runs at most one capture loop.  A
\* start has stopped the loop's flag and released the device it held before
\* it opens any candidate, the candidates loop never has two captures open,
\* the device held is never replaced without having been released, a capture
\* thread is started only by a start that accepted a device, and a start
\* that finds the thread still running starts no second one.
C32_OneDeviceOneLoop ==
    /\ [](OneOpenWhileTrying)
    /\ [](ui_pc = "start_open" => (camera = NoCamera /\ ~is_running))
    /\ [][camera' # camera => (camera = NoCamera \/ camera' = NoCamera)]_vars
    /\ [][(t_pc = "none" /\ t_pc' # "none") =>
            /\ ui_pc = "start_open" /\ t_pc' = "loop"
            /\ camera' # NoCamera /\ is_running']_vars
    /\ [][(ui_pc = "start_open" /\ ui_pc' # "start_open" /\ t_pc # "none") =>
            t_pc' = t_pc]_vars
    /\ [](is_running => camera # NoCamera)

\* a second start has opened a device while the capture thread of the
\* session before it is still inside its loop
C32_Witness ==
    /\ ret.op = "start_camera" /\ ret.value = "True"
    /\ ui_pc = "idle" /\ was_stopped
    /\ camera # NoCamera /\ is_running
    /\ t_pc = "read" /\ consecutive_failures = 0
    /\ last_camera_frame # 0 /\ frame_events # <<>>

\* the control surface handles the frame at the head of its event queue
FrameHandled ==
    /\ ui_pc = "idle"
    /\ frame_events # <<>>
    /\ frame_events' = Tail(frame_events)

\* C33: a frame handled while the control state is not Running, or while a
\* snapshot or an upload is being processed, is ignored: the handler returns
\* before it stores the frame, counts it, runs predict on it or displays it,
\* so the stored most-recent frame, the frame counter, the last inference
\* result, the loader and the rest of the control surface are unchanged.
C33_FrameOutsideRunningIgnored ==
    [][(FrameHandled /\ (~is_camera_on \/ processing_files)) =>
            UNCHANGED <<last_camera_frame, frame_counter, ret, snapshot_frame,
                        loaderVars, queueVars, callerVars, btnVars,
                        is_camera_on, processing_files, timer>>]_vars

\* a frame that differs from the stored one waits in the event queue of a
\* control surface that is processing the snapshot taken of the stored one
C33_Witness ==
    /\ ui_pc = "idle"
    /\ processing_files /\ ~is_camera_on
    /\ frame_events # <<>>
    /\ snapshot_frame # 0 /\ last_camera_frame = snapshot_frame
    /\ Head(frame_events) # last_camera_frame

(***************************************************************************)
(* Claims on the names the watcher marks seen (checked under SpecSeen)     *)
(***************************************************************************)
\* C37: the watcher never renames a file that was in the directory when
\* watching started, whatever files are added later and however often it
\* polls: rename_file_safely is never called on that file, not even for a
\* dry run, the file keeps its name, and the name stays in seen.
C37_ExistingFilesNeverRenamed ==
    /\ \A i \in 1..Len(attempts) : attempts[i].id # OldId
    /\ \A n \in Names : dir[n].id = OldId => (n = "old" /\ n \in seen)
    /\ \A n \in Names \ AddedNames : dir[n] # NoEntry => n \in seen

\* an image that was there at start-up still has its name after two files
\* added later were handled, one of them renamed
C37_Witness ==
    /\ dir["old"] = [id |-> OldId, image |-> TRUE]
    /\ Len(attempts) = 2
    /\ attempts[1].outcome = "renamed"
    /\ dir[attempts[1].to].id = attempts[1].id
    /\ wd_pc = "sleep"

\* no file is handed to rename_file_safely twice, and no file the watcher
\* produced is handed to it
HandledAtMostOnce ==
    /\ \A i, j \in 1..Len(attempts) : attempts[i].id = attempts[j].id => i = j
    /\ \A i \in 1..Len(attempts) : attempts[i].from \notin RandomNames

\* C38: each new file is handled at most once.  After a rename attempt,
\* successful, failed or dry-run, the original name is in seen and the new
\* random name is in seen as well; the watcher never renames a file it
\* produced and never renames the same file twice.
C38_BothNamesMarkedSeen ==
    /\ \A i \in 1..Len(attempts) :
            attempts[i].from \in seen /\ attempts[i].to \in seen
    /\ HandledAtMostOnce

\* C38 (amended): each new file is handled at most once.  After a rename
\* attempt, successful, failed or dry-run, the original name is in seen; the
\* new random name is in seen after a successful or a dry-run attempt, and
\* after a failed attempt it is not marked, no file having been produced
\* under it.  A renamed file stays under the name it was given, any other
\* stays under its original name; the watcher never renames a file it
\* produced and never renames the same file twice.
C38_EachFileHandledOnce ==
    /\ \A i \in 1..Len(attempts) :
            LET a == attempts[i]
            IN  /\ a.from \in seen
                /\ a.outcome \in {"renamed", "dry"} => a.to \in seen
                /\ IF a.outcome = "renamed"
                   THEN dir[a.to].id = a.id /\ dir[a.from].id # a.id
                   ELSE dir[a.from].id = a.id
    /\ HandledAtMostOnce

\* the rename of one file failed and left its random name unmarked, another
\* file was renamed, and the pass after that is over
C38_Witness ==
    /\ Len(attempts) = 2
    /\ attempts[1].outcome = "failed" /\ attempts[1].to \notin seen
    /\ attempts[2].outcome = "renamed" /\ attempts[2].to \in seen
    /\ {attempts[1].from, attempts[2].from} \subseteq seen
    /\ wd_pc = "sleep" /\ todo = {}

(***************************************************************************)
(* Claims on rename_images (checked under SpecRename)                      *)
(***************************************************************************)
\* C39: rename_images loses no file.  For any set of N image files in the
\* folder, files already named Image_<k>.<ext> among them, and any start
\* number, the run ends without an exception and the folder then holds N
\* files with pairwise distinct names, numbered start .. start+N-1, each
\* original file under one of them with its extension and its content.
C39_RenameLosesNoFile ==
    ret.op = "rename_images" =>
        LET N == Cardinality(arg.folder)
        IN  /\ ~ret.raised
            /\ Cardinality(ret.folder) = N
            /\ \A e1, e2 \in ret.folder : e1.name = e2.name => e1 = e2
            /\ {e.content : e \in ret.folder} = arg.folder
            /\ \A e \in ret.folder :
                    /\ e.name.stem = "Image_"
                    /\ e.name.ext = e.content.ext
            /\ {e.name.num : e \in ret.folder}
                    = arg.start_number..(arg.start_number + N - 1)

(***************************************************************************)
(* Claims on the frame a snapshot analyses (checked under Spec)            *)
(***************************************************************************)
\* no frame has been handled since the most recent successful start: the
\* start's answer is still the last thing recorded and the frame counter is
\* at 0.  (Handling a frame in Running moves the counter off 0, and the
\* handling that brings it back to 0 runs predict and replaces ret.)
NoFrameThisSession ==
    /\ ret.op = "start_camera" /\ ret.value = "True"
    /\ frame_counter = 0

\* C36: the frame a snapshot analyses was captured in the current Running
\* session, after the most recent successful start; a frame left over from
\* an earlier session is never used.  Hence a snapshot command issued before
\* any frame of the current session has been handled takes no frame.
C36_SnapshotFrameFromCurrentSession ==
    [][(NoFrameThisSession /\ ClickSnapshot) =>
            (snapshot_frame' = 0 /\ timer' = "none" /\ ~processing_files')]_vars

(***************************************************************************)
(* Claims on the buttons (checked under Spec)                              *)
(***************************************************************************)
\* between handlers the stop button is enabled exactly in Running and the
\* snapshot button only in Running
StopAndSnapshotFollowRunning ==
    ui_pc = "idle" => ((stop_btn <=> Running) /\ (snapshot_btn => Running))

\* between handlers, while a snapshot or an upload is processed, the start,
\* snapshot and upload buttons are disabled
DisabledWhileProcessing ==
    (ui_pc = "idle" /\ processing_files) =>
        (~start_btn /\ ~snapshot_btn /\ ~upload_btn /\ ~folder_btn)

\* C35: after every command the buttons follow the control state: stop is
\* enabled exactly when the state is Running, snapshot is enabled only when
\* the state is Running, and while a snapshot or an upload is being
\* processed start, snapshot and upload are all disabled.
C35_CapabilitiesTrackState ==
    StopAndSnapshotFollowRunning /\ DisabledWhileProcessing

(***************************************************************************)
(* Claims on the exclusion of camera and processing (checked under         *)
(* SpecBatch)                                                              *)
(***************************************************************************)
\* the processing jobs that are pending or under way: the snapshot or the
\* single image waiting for its timer, and the batch from its timer to the
\* handling of finished_processing (a batch thread that has emitted the
\* signal and is returning from run() processes nothing any more)
JobsActive ==
    (IF timer = "snapshot" THEN 1 ELSE 0)
        + (IF timer = "image" THEN 1 ELSE 0)
        + (IF timer = "folder" \/ fp_pc \notin {"none", "exit"} \/ fp_finished
           THEN 1 ELSE 0)

\* a start, snapshot or upload command is issued
CommandIssued ==
    \/ ClickStart
    \/ ClickSnapshot
    \/ \E kind \in {"image", "folder"} : ClickUpload(kind)

\* C34: live camera operation and processing exclude each other and
\* processing jobs never overlap.  Between handlers the control surface is
\* never both camera-on and processing; while it is processing the frame
\* source is stopped and its device released; at most one job is pending or
\* under way, and only while the processing flag is set; and a start,
\* snapshot or upload command issued while processing changes neither the
\* frame source nor the control state nor the buttons nor the pending job
\* and file list.
C34_CameraAndProcessingExclusive ==
    /\ [](ui_pc = "idle" => ~(is_camera_on /\ processing_files))
    /\ [](processing_files => (~is_camera_on /\ ~is_running /\ camera = NoCamera))
    /\ [](JobsActive <= 1)
    /\ [](JobsActive = 1 => processing_files)
    /\ [][(processing_files /\ CommandIssued) =>
            UNCHANGED <<camVars, winVars, btnVars, ui_pc, ui_cont, snapshot_frame,
                        timer, fp_pc, fp_finished, fpVars>>]_vars

\* a start command was refused while the snapshot taken before it waits for
\* its timer, and the snapshot is still pending
C34_Witness ==
    /\ ret.op = "start_camera" /\ ret.value = "refused"
    /\ ui_pc = "idle" /\ processing_files /\ ~is_camera_on
    /\ timer = "snapshot" /\ snapshot_frame # 0
    /\ start_btn

(***************************************************************************)
(* Claims on the uploads (checked under SpecBatch)                         *)
(***************************************************************************)
Outcomes == {"Skipped", "Detected", "No detection", "Error"}

FinishedIn(log) == \E k \in 1..Len(log) : log[k].ev = "finished"

\* the per-file signals of entries 1..n, in list order: "Processing i/total"
\* followed by one outcome for entry i
PerFileLog(log, n, total) ==
    /\ Len(log) >= 2 * n
    /\ \A i \in 1..n :
          /\ log[2 * i - 1].ev = "Processing"
          /\ log[2 * i - 1].i = i
          /\ log[2 * i - 1].total = total
          /\ log[2 * i].ev \in Outcomes
          /\ log[2 * i].i = i

\* C11: a batch run processes every entry of its list exactly once and in
\* list order: entry i gets the progress signal "Processing i/total" followed
\* by exactly one outcome (Skipped for an unreadable file, Error only where
\* the body raised), the run goes on after an Error until the whole list is
\* done, and the run removes its entries from the list when it ends, so that
\* the next batch does not process them again.
C11_BatchProcessesEachEntryOnce ==
    /\ [](fp_pc = "loop" =>
            /\ fp_total = Len(files_to_process)
            /\ Len(fp_log) = 2 * fp_i
            /\ PerFileLog(fp_log, fp_i, fp_total)
            /\ \A i \in 1..fp_i :
                  /\ (fp_log[2 * i].ev = "Skipped") <=> (files_to_process[i] = "unreadable")
                  /\ (fp_log[2 * i].ev = "Error") => (files_to_process[i] = "unwritable"))
    /\ [](FinishedIn(fp_log) =>
            /\ Len(fp_log) = 2 * fp_log[Len(fp_log)].total + 1
            /\ PerFileLog(fp_log, fp_log[Len(fp_log)].total, fp_log[Len(fp_log)].total))
    /\ [][(fp_pc = "loop" /\ fp_pc' # "loop") =>
            (fp_i = Len(files_to_process) /\ files_to_process' = <<>>)]_vars
    /\ [][(fp_pc = "run" /\ fp_pc' = "loop") => (fp_log = <<>> /\ fp_i' = 0)]_vars

\* a finished batch of two files: the first unreadable, the second detected
C11_Witness ==
    /\ Len(fp_log) = 5
    /\ fp_log[2].ev = "Skipped"
    /\ fp_log[4].ev = "Detected"
    /\ fp_log[5].ev = "finished"

\* C12: in every batch run finished_processing is emitted exactly once, as
\* the last signal of the run and after the per-file signals of every entry,
\* whatever the entries were (skipped, failed, or none at all); no completion
\* is pending while a run is still in its loop.
C12_CompletionOnceAfterAllFiles ==
    /\ [](\A k \in 1..Len(fp_log) : fp_log[k].ev = "finished" => k = Len(fp_log))
    /\ [](fp_pc \in {"run", "loop"} => (~fp_finished /\ ~FinishedIn(fp_log)))
    /\ [](fp_finished => FinishedIn(fp_log))
    /\ [][(fp_pc = "loop" /\ fp_pc' # "loop") =>
            /\ Len(fp_log) = 2 * fp_total
            /\ Len(fp_log') = Len(fp_log) + 1
            /\ fp_log'[Len(fp_log')].ev = "finished"
            /\ fp_finished'
            /\ fp_pc' = "exit"]_vars

\* the completion of a batch whose only entry raised, and of an empty batch
C12_Witness ==
    /\ fp_finished
    /\ \/ Len(fp_log) = 3 /\ fp_log[2].ev = "Error"
       \/ Len(fp_log) = 1

\* C13: on the three synchronous-predict paths the annotated image is saved
\* exactly when predict returned a detection for the item and saving it did
\* not fail; an unreadable file, an item without detection and an item whose
\* processing raised leave no output file.
C13_PersistedIffDetection ==
    /\ ret.op = "process_snapshot" => (ret.saved <=> ret.det # None)
    /\ ret.op = "process_single_image" =>
          /\ ret.saved <=> (ret.det # None /\ ~ret.raised)
          /\ ret.kind = "unreadable" => ~ret.saved
    /\ \A k \in 1..Len(fp_log) :
          fp_log[k].ev \in Outcomes =>
              /\ fp_log[k].saved <=> (fp_log[k].det /\ fp_log[k].ev # "Error")
              /\ fp_log[k].ev \in {"Skipped", "No detection", "Error"} => ~fp_log[k].saved
              /\ fp_log[k].ev = "Detected" => fp_log[k].det

\* a saved snapshot, then a batch with one saved and one unsaved entry
C13_Witness ==
    /\ ret.op = "process_snapshot"
    /\ ret.saved
    /\ \E k \in 1..Len(fp_log) : fp_log[k].saved
    /\ \E k \in 1..Len(fp_log) : fp_log[k].ev = "No detection"

\* C21: an upload (single image or folder) runs only from Idle.  While files
\* are processed the command is refused and changes nothing; accepted with
\* the camera on, it stops the camera (control state off, run flag cleared,
\* device released) before its dialog opens; and from the dialog until the
\* last uploaded file has been processed the camera stays off, so that no
\* uploaded file is processed while the control state is Running.
C21_UploadOnlyFromIdle ==
    /\ [][(ui_pc = "idle" /\ ret'.op = "upload" /\ ret' # ret) =>
            (processing_files /\ UNCHANGED <<camVars, winVars, btnVars, uiVars>>)]_vars
    /\ [][(ui_pc = "idle" /\ ui_cont' \in {"upload_image", "upload_folder"}) =>
            /\ is_camera_on /\ ~processing_files
            /\ ui_pc' = "wait"
            /\ ~is_camera_on' /\ ~is_running' /\ camera' = NoCamera]_vars
    /\ [][(ui_pc = "idle" /\ ui_pc' \in {"dialog_image", "dialog_folder"}) =>
            (~is_camera_on /\ ~processing_files)]_vars
    /\ [](ui_pc \in {"dialog_image", "dialog_folder"} => (Idle /\ ~is_running))
    /\ [](timer \in {"image", "folder"} =>
            (~is_camera_on /\ ~is_running /\ processing_files))
    /\ [](fp_pc \in {"run", "loop"} =>
            (~is_camera_on /\ ~is_running /\ processing_files))
    /\ [][(ret'.op = "process_single_image" /\ ret' # ret) => ~Running]_vars
    /\ [][fp_i' > fp_i => (~Running /\ ~Running')]_vars

\* a file of an uploaded folder has been processed while the capture thread
\* that the upload stopped is still inside run()
C21_Witness ==
    /\ fp_pc = "loop" /\ fp_i = 1
    /\ last_camera_frame # 0
    /\ t_pc \in {"check", "read"}

(***************************************************************************)
(* Claims on what changes the control state (checked under Spec)           *)
(***************************************************************************)
\* C23: the control surface's pipeline state is_camera_on changes only as
\* the effect of an explicit command.  It is set only by a start command
\* whose frame source answered True, and cleared only by the handler of a
\* stop, snapshot, upload or close command as it enters stop_camera; no step
\* of the capture loop (a frame, a failed read, the abort past max_failures,
\* the thread finishing) and no frame delivery with its inference result or
\* error changes it.
C23_StateChangesOnlyOnCommand ==
    /\ [][(is_camera_on' /\ ~is_camera_on) =>
            /\ ui_pc = "start_open" /\ ui_pc' = "idle"
            /\ ret'.op = "start_camera" /\ ret'.value = "True"]_vars
    /\ [][(~is_camera_on' /\ is_camera_on) =>
            /\ ui_pc = "idle" /\ ui_pc' = "wait"
            /\ ui_cont' \in {"stop", "snapshot", "upload_image", "upload_folder",
                              "close"}]_vars
    /\ [][(ui_pc' = ui_pc /\ ui_cont' = ui_cont /\ t_pc' # t_pc) =>
            is_camera_on' = is_camera_on]_vars
    /\ [][(frame_events' # frame_events \/ consecutive_failures' > consecutive_failures) =>
            is_camera_on' = is_camera_on]_vars

\* the capture loop has aborted past max_failures and its thread has
\* finished, an inference result was delivered, and the control state is on
C23_Witness ==
    /\ consecutive_failures > max_failures /\ t_pc = "none"
    /\ ret.op = "process_camera_frame"
    /\ is_camera_on /\ ui_pc = "idle"

(***************************************************************************)
(* Claims on which thread runs the model (checked under Spec)              *)
(***************************************************************************)
\* a handler of the UI thread (process_camera_frame, process_snapshot,
\* process_single_image) has called predict_single on a loaded model
UIHandlerInfers ==
    /\ ui_pc = "idle"
    /\ ~use_mock /\ model = "loaded"
    /\ ret' # ret
    /\ \/ ret'.op \in {"process_camera_frame", "process_snapshot"}
       \/ ret'.op = "process_single_image" /\ ret'.kind # "unreadable"

\* C22 (as claimed): the UI thread never performs inference itself: no step
\* of a UI-thread handler runs the model on a camera frame, a snapshot or an
\* uploaded image.
C22_NoInferenceOnUIThread == [][~UIHandlerInfers]_vars

(***************************************************************************)
(* Claims on the watcher (checked under SpecStable and SpecWatch)          *)
(***************************************************************************)
\* the checks j-k+1..j of the log all found the size unchanged
UnchangedRun(log, j, k) == \A i \in (j - k + 1)..j : log[i].same

\* the number of checks at the end of the log that found the size unchanged
RECURSIVE TrailingSame(_)
TrailingSame(log) ==
    IF log = <<>> \/ ~log[Len(log)].same
    THEN 0
    ELSE 1 + TrailingSame(SubSeq(log, 1, Len(log) - 1))

\* C25 (as claimed): wait_for_stable_file returns True if and only if the
\* size was found unchanged on stable_checks consecutive checks made before
\* timeout had elapsed (a check made at the very instant the timeout expires
\* is let through); every check is at least one interval after the one
\* before it, a changed size resets the count to zero, and a file that has
\* disappeared yields False.
C25_TrueIffStableBeforeTimeout ==
    /\ wf_pc = "done" =>
          /\ stable \in {"True", "False"}
          /\ (stable = "True") <=>
                \E j \in stable_checks..Len(checks) :
                    /\ UnchangedRun(checks, j, stable_checks)
                    /\ checks[j].at <= timeout
          /\ (\E i \in 1..Len(checks) : checks[i].size = Gone) => stable = "False"
    /\ wf_pc \in {"head", "sleep"} => consecutive = TrailingSame(checks)
    /\ \A i \in 1..Len(checks) :
          checks[i].at >= interval + (IF i = 1 THEN 0 ELSE checks[i - 1].at)

\* C24 (as claimed): run with the default parameters, the watcher eventually
\* renames an image file that was added to the directory after start-up and
\* whose size no longer changes (unless the file is removed first).
C24_StableImageEventuallyRenamed ==
    []((args = DefaultArgs /\ file.name = "new" /\ file.image /\ ~file.writing)
          => <>(file.name # "new"))

(***************************************************************************)
(* Claims on inference errors (checked under SpecAsync)                    *)
(***************************************************************************)
\* C14: an error raised by the model during inference is absorbed.
\* predict_single answers the caller's own, unmodified frame and no
\* detection; the worker leaves the frame it had taken, publishes nothing,
\* keeps its run flag and is back at the head of its loop, from where it
\* takes the frames submitted later.
C14_InferenceErrorsAbsorbed ==
    /\ []((ret.op = "predict_single" /\ ret.out.kind = "raise") =>
            (ret.img = Original(ret.image) /\ ret.det = None))
    /\ [][(w_pc = "infer" /\ w_pc' # "infer") =>
            \/ w_pc' = "check" /\ completed' = completed + 1
            \/ /\ w_pc' = "loop"
               /\ UNCHANGED <<is_processing, detection_queue, result_queue,
                              last_result, completed>>]_vars
    /\ []((w_pc = "get" /\ is_processing) => ENABLED W_Get)

\* a predict_async call has returned from a running loader whose model is
\* loaded, the submission slot is empty again and the worker holds no frame,
\* yet no inference has completed: the frame the worker took made the model
\* raise, and the worker is back at the head of its loop with its flag set
C14_Witness ==
    /\ ret.op = "predict_async" /\ ret.running
    /\ ~use_mock /\ model = "loaded"
    /\ is_processing /\ w_pc = "loop" /\ w_frame = 0
    /\ completed = 0 /\ detection_queue = <<>> /\ last_result = NoResult

====
